---------------------------- MODULE Spec2Model ----------------------------
(***************************************************************************)
(* Nabu feedback classification: the bulk classification job               *)
(* (batchClassifyFeedback behind POST /api/classify), the anchor store,    *)
(* the single-item classifier, the persister, the urgency read paths, the  *)
(* executive summary and the refinement call, the seed request, and        *)
(* cosineSimilarity called on its own.                                     *)
(*                                                                         *)
(* Numbers.  A similarity score is a JavaScript double in [-1, 1]; here it *)
(* is a fixed-point integer in units of 1/Scale.  Vectors are drawn from   *)
(* VecList, whose magnitudes are whole numbers, so every score is exact.   *)
(* A nullable SQL REAL is <<>> (NULL) or <<x>>.  A missing vector          *)
(* (undefined / null in the array) is NoVector.                            *)
(***************************************************************************)
EXTENDS Integers, Sequences, FiniteSets, TLC

VARIABLES
    aiModel,          \* which embedding function the inference service computes
    feedback,         \* table feedback: rows [id, content]
    classifications,  \* table classifications: rows in insertion order
    pc,               \* position of the classification request
    feedbackItems,    \* batchClassifyFeedback: parameter feedbackItems
    labelEmbeddings,  \* precomputeLabelEmbeddings: categoryEmbeddings
    allEmbeddings,    \* batchClassifyFeedback: allEmbeddings
    i,                \* loop offset of the chunk loop, then of the save loop
    classified,       \* batchClassifyFeedback: classified
    failed,           \* batchClassifyFeedback: failed
    batchResults,     \* batchClassifyFeedback: batchResults
    aiCalls,          \* every ai.run issued, in order, with its outcome
    dbCalls,          \* every db.batch issued by the job, in order
    response,         \* the response of classifyAllFeedback, <<>> while none
    single,           \* what classifyFeedback resolved with, <<>> while none
    sPc,              \* where the summary request or the refinement call stands
    metrics,          \* getExecutiveSummary: the metrics read, <<>> while none
    completionCalls,  \* every call of the text-completion model, in order
    summaryResponse,  \* the response of getExecutiveSummary, <<>> while none
    refinement,       \* what refineCriticalFeedback settled with, <<>> while none
    seedPc,           \* seedDatabase: the statement it is about to run
    seeds,            \* the seed requests received so far
    jobs,             \* the classification requests answered and followed by another
    served,           \* what each of those requests was answered with, in order
    seedResponse,     \* the response of seedDatabase, <<>> while none
    vecA,             \* cosineSimilarity: parameter vecA
    vecB,             \* cosineSimilarity: parameter vecB
    similarity        \* what cosineSimilarity returned, <<>> while not called

\* the state of the classification pipeline
pipelineVars == <<aiModel, feedback, classifications, pc, feedbackItems, labelEmbeddings,
                  allEmbeddings, i, classified, failed, batchResults, aiCalls, dbCalls,
                  response, single>>

\* the state of the calls that use the text-completion model
summaryVars == <<sPc, metrics, completionCalls, summaryResponse, refinement>>

\* the state of a seed request, and the count of requests
seedVars == <<seedPc, seeds, jobs, served, seedResponse>>

\* a call of cosineSimilarity taken on its own
cosineVars == <<vecA, vecB, similarity>>

vars == <<pipelineVars, summaryVars, seedVars, cosineVars>>

-----------------------------------------------------------------------------
(* Bounds of the model *)

\* feedback tables of every length 0..MaxItems over all texts are explored
MaxItems == 2

\* larger feedback tables (periodic contents), to span several chunks
BulkSizes == {100, 101, 250}

\* the largest critical or high count a metrics read answers with
MaxCount == 8

\* the classification requests of one behaviour, one after another
MaxJobs == 2

\* the seed requests of one behaviour
MaxSeeds == 1

\* the number of items of the mock data
SeedItems == 2

\* cosineSimilarity on its own: vectors of every length 0..MaxDim
MaxDim == 2

\* cosineSimilarity on its own: components in -MaxComponent..MaxComponent
MaxComponent == 4

-----------------------------------------------------------------------------
(* Program constants *)

\* fixed-point unit of a score: 1.0 is Scale
Scale == 100

chunkSize == 100

saveChunkSize == 50

\* the 0.5 of "urgency_confidence > 0.5", in units of 1/Scale
UrgencyThreshold == 50

\* the 0.65 of "lowestConfidence < 0.65"
LowConfidence == 65

\* the 0.15 of the mixed-sentiment test
MixedSentimentGap == 15

\* the 5 of "recent7d.highCount >= 5"
Important7dMinimum == 5

\* the 5 of "recent30d.criticalCount >= 5"
Critical30dMinimum == 5

-----------------------------------------------------------------------------
(* Vectors and the embedding service *)

NoVector == <<>>

\* The vectors the service can answer with.  The last two are answers for
\* feedback texts only: one has another dimension than the others (a
\* malformed element of a response), one lies close to two of the others.
VecList == <<
    <<1, 1, 1, 1>>,
    <<0, 0, 0, 0>>,
    <<0, 1, 0, 0>>,
    <<-1, 0, 0, 0>>,
    <<1, 0, 0, 0>>,
    <<3, 4, 0, 0>>,
    <<1, 0>>,
    <<12, 5, 0, 0>> >>

NVec == Len(VecList)

\* vectors of the anchors' dimension
NAnchorVec == NVec - 2

\* A feedback text is identified by the vector the service computes for it.
Texts == 1..NVec

Min(a, b) == IF a < b THEN a ELSE b

RECURSIVE ISqrtFrom(_, _)
ISqrtFrom(n, r) == IF (r + 1) * (r + 1) > n THEN r ELSE ISqrtFrom(n, r + 1)

\* Math.sqrt on the squared magnitudes that occur (all perfect squares)
Sqrt(n) == ISqrtFrom(n, 0)

RECURSIVE SumTo(_, _)
SumTo(f, n) == IF n = 0 THEN 0 ELSE f[n] + SumTo(f, n - 1)

DotProduct(a, b) == SumTo([k \in 1..Len(a) |-> a[k] * b[k]], Len(a))

Magnitude(vec) == Sqrt(DotProduct(vec, vec))

\* the value that stands for the Error thrown on a length mismatch
Thrown == Scale * Scale

\* a similarity that tests only the first magnitude for zero: with a zero
\* second magnitude the quotient is 0 / 0, which is NaN (here a value that
\* is no score)
cosineSimilarity_ZeroTestOnFirst(a, b) ==
    IF Len(a) # Len(b) THEN Thrown
    ELSE IF Magnitude(a) = 0 THEN 0
    ELSE IF Magnitude(b) = 0 THEN Thrown + 1
    ELSE (DotProduct(a, b) * Scale) \div (Magnitude(a) * Magnitude(b))

cosineSimilarity(a, b) ==
    IF Len(a) # Len(b) THEN Thrown
    ELSE LET dotProduct == DotProduct(a, b)
             magnitudeA == Magnitude(a)
             magnitudeB == Magnitude(b)
         IN  IF magnitudeA = 0 \/ magnitudeB = 0 THEN 0
             ELSE (dotProduct * Scale) \div (magnitudeA * magnitudeB)

-----------------------------------------------------------------------------
(* Label definitions.  A label text is the sequence of its space-separated  *)
(* words.                                                                   *)

LABEL_DEFINITIONS == <<
    [category |-> "products", labels |-> <<
        <<"D1", "Cloudflare", "database", "SQL", "storage", "querying">>,
        <<"KV", "Workers", "key-value", "store", "caching">>,
        <<"AI", "Workers", "machine", "learning", "inference", "models">>,
        <<"R2", "object", "storage", "buckets", "files">>,
        <<"Workflows", "orchestration", "stateful", "functions">>,
        <<"DDoS", "protection", "security", "mitigation">> >>],
    [category |-> "polarity", labels |-> <<
        <<"positive", "satisfied", "excellent", "working", "well", "happy", "pleased">>,
        <<"neutral", "okay", "fine", "average", "acceptable", "functional">>,
        <<"negative", "frustrated", "broken", "failing", "disappointed", "angry">> >>],
    [category |-> "urgency", labels |-> <<
        <<"critical", "urgent", "blocking", "production", "emergency", "immediate", "down">>,
        <<"high", "priority", "important", "impacting", "significant">>,
        <<"medium", "normal", "standard", "routine", "moderate">>,
        <<"low", "minor", "casual", "suggestion", "nice-to-have", "future">> >>],
    [category |-> "feedbackType", labels |-> <<
        <<"bug", "error", "failure", "broken", "crash", "exception", "not", "working">>,
        <<"feature_request", "enhancement", "new", "capability", "need", "want">>,
        <<"documentation", "help", "guide", "tutorial", "unclear", "confusing">>,
        <<"performance", "slow", "latency", "timeout", "speed", "optimization">>,
        <<"pricing", "cost", "billing", "expensive", "tier", "limit", "quota">> >>],
    [category |-> "churnRisk", labels |-> <<
        <<"high", "risk", "leaving", "switching", "competitor", "alternative", "canceling", "frustrated", "quitting">>,
        <<"medium", "risk", "neutral", "evaluating", "considering", "exploring", "options", "unsure">>,
        <<"low", "risk", "satisfied", "staying", "committed", "continuing", "happy", "loyal">> >> ] >>

NCategories == Len(LABEL_DEFINITIONS)

\* an extraction that takes the token after the first
extractLabelName_SecondToken(fullLabel) == fullLabel[2]

\* fullLabel.split(' ')[0]
extractLabelName(fullLabel) == fullLabel[1]

\* the column a category is stored in
getCategoryColumnName(category) ==
    CASE category = "polarity" -> "sentiment"
      [] category = "feedbackType" -> "feedback_type"
      [] category = "products" -> "product_detected"
      [] category = "urgency" -> "urgency"
      [] category = "churnRisk" -> "churn_risk"
      [] OTHER -> category

\* the CHECK(... IN (...)) constraints of the classifications table
StorageEnum ==
    [sentiment |-> {"positive", "neutral", "negative"},
     urgency |-> {"critical", "high", "medium", "low"},
     feedback_type |-> {"bug", "feature_request", "documentation", "performance",
                        "pricing"},
     churn_risk |-> {"high", "medium", "low"}]

\* The service's vector for a feedback text.
EmbedText(text) == VecList[text]

\* The embedding functions explored: one per rotation of the anchors' vectors.
Models == 0..(NAnchorVec - 1)

\* The service's vector for the index-th label text of a category under
\* embedding function m.
EmbedLabel(m, index) == VecList[((index - 1 + m) % NAnchorVec) + 1]

-----------------------------------------------------------------------------
(* Helpers on sequences *)

\* Array.prototype.slice(from, to) with 0-based offsets, to exclusive
Slice(s, from, to) == SubSeq(s, from + 1, Min(to, Len(s)))

\* Math.ceil(n / d)
CeilDiv(n, d) == (n + d - 1) \div d

-----------------------------------------------------------------------------
(* Similarity classification of one vector                                  *)

\* similarities: categoryData.embeddings.map(... cosineSimilarity ...)
Similarities(feedbackEmbedding, categoryData) ==
    [k \in 1..Len(categoryData.embeddings) |->
        [label |-> categoryData.embeddings[k].label,
         score |-> cosineSimilarity(feedbackEmbedding, categoryData.embeddings[k].embedding)]]

\* a reduce that lets the last of several equal maxima win
RECURSIVE ReduceMax_LastWins(_, _, _)
ReduceMax_LastWins(similarities, k, max) ==
    IF k > Len(similarities) THEN max
    ELSE ReduceMax_LastWins(similarities, k + 1,
                            IF similarities[k].score >= max.score THEN similarities[k] ELSE max)

\* similarities.reduce((max, curr) => (curr.score > max.score ? curr : max))
RECURSIVE ReduceMax(_, _, _)
ReduceMax(similarities, k, max) ==
    IF k > Len(similarities) THEN max
    ELSE ReduceMax(similarities, k + 1,
                   IF similarities[k].score > max.score THEN similarities[k] ELSE max)

BestMatch(similarities) == ReduceMax(similarities, 2, similarities[1])

\* cosineSimilarity throws for some anchor of some category
ClassifyThrows(feedbackEmbedding, lblEmbeddings) ==
    \E c \in 1..Len(lblEmbeddings) :
        \E k \in 1..Len(lblEmbeddings[c].embeddings) :
            cosineSimilarity(feedbackEmbedding, lblEmbeddings[c].embeddings[k].embedding) = Thrown

CategoryIndex(lblEmbeddings, cat) ==
    CHOOSE c \in 1..Len(lblEmbeddings) : lblEmbeddings[c].category = cat

\* classifications: Record<string, ClassificationResult> of the bulk path
BulkClassifications(feedbackEmbedding, lblEmbeddings) ==
    [cat \in {lblEmbeddings[c].category : c \in 1..Len(lblEmbeddings)} |->
        LET bestMatch == BestMatch(Similarities(feedbackEmbedding,
                                       lblEmbeddings[CategoryIndex(lblEmbeddings, cat)]))
        IN  [category |-> cat,
             label |-> extractLabelName(bestMatch.label),
             confidence |-> bestMatch.score]]

-----------------------------------------------------------------------------
(* Persistence *)

\* SQL NULL in a TEXT column
NullText == "NULL"

\* classifications[cat]?.label || null
LabelOrNull(cls, cat) == IF cat \in DOMAIN cls THEN cls[cat].label ELSE NullText

\* classifications[cat]?.confidence || null: 0 is falsy and becomes NULL
ConfidenceOrNull(cls, cat) ==
    IF cat \in DOMAIN cls /\ cls[cat].confidence # 0 THEN <<cls[cat].confidence>> ELSE <<>>

\* an insert that applies the urgency downgrade before storing
InsertRow_DowngradeOnWrite(id, cls) ==
    [feedback_id |-> id,
     sentiment |-> LabelOrNull(cls, "polarity"),
     sentiment_confidence |-> ConfidenceOrNull(cls, "polarity"),
     urgency |-> IF /\ LabelOrNull(cls, "urgency") = "critical"
                    /\ cls["urgency"].confidence <= UrgencyThreshold
                 THEN "high" ELSE LabelOrNull(cls, "urgency"),
     urgency_confidence |-> ConfidenceOrNull(cls, "urgency"),
     product_detected |-> LabelOrNull(cls, "products"),
     product_confidence |-> ConfidenceOrNull(cls, "products"),
     feedback_type |-> LabelOrNull(cls, "feedbackType"),
     feedback_type_confidence |-> ConfidenceOrNull(cls, "feedbackType"),
     churn_risk |-> LabelOrNull(cls, "churnRisk")]

\* the values bound to INSERT INTO classifications (...) for one result
InsertRow(id, cls) ==
    [feedback_id |-> id,
     sentiment |-> LabelOrNull(cls, "polarity"),
     sentiment_confidence |-> ConfidenceOrNull(cls, "polarity"),
     urgency |-> LabelOrNull(cls, "urgency"),
     urgency_confidence |-> ConfidenceOrNull(cls, "urgency"),
     product_detected |-> LabelOrNull(cls, "products"),
     product_confidence |-> ConfidenceOrNull(cls, "products"),
     feedback_type |-> LabelOrNull(cls, "feedbackType"),
     feedback_type_confidence |-> ConfidenceOrNull(cls, "feedbackType"),
     churn_risk |-> LabelOrNull(cls, "churnRisk")]

-----------------------------------------------------------------------------
(* Initial states *)

\* the feedback table holding the given contents, ids in insertion order
TableOf(contents) == [k \in 1..Len(contents) |-> [id |-> k, content |-> contents[k]]]

SmallContents == UNION {[1..n -> Texts] : n \in 0..MaxItems}

BulkContents == {[k \in 1..n |-> ((k - 1) % NVec) + 1] : n \in BulkSizes}

Init ==
    /\ \/ /\ aiModel \in Models
          /\ feedback \in {TableOf(c) : c \in SmallContents}
       \/ /\ aiModel = 0
          /\ feedback \in {TableOf(c) : c \in BulkContents}
    /\ classifications = <<>>
    /\ pc = "idle"
    /\ feedbackItems = <<>>
    /\ labelEmbeddings = <<>>
    /\ allEmbeddings = <<>>
    /\ i = 0
    /\ classified = 0
    /\ failed = 0
    /\ batchResults = <<>>
    /\ aiCalls = <<>>
    /\ dbCalls = <<>>
    /\ response = <<>>
    /\ single = <<>>
    /\ sPc = "idle"
    /\ metrics = <<>>
    /\ completionCalls = <<>>
    /\ summaryResponse = <<>>
    /\ refinement = <<>>
    /\ seedPc = "idle"
    /\ seeds = 0
    /\ jobs = 0
    /\ served = <<>>
    /\ seedResponse = <<>>
    /\ vecA = <<>>
    /\ vecB = <<>>
    /\ similarity = <<>>

-----------------------------------------------------------------------------
(* POST /api/classify: classifyAllFeedback and batchClassifyFeedback         *)

\* the catch of classifyAllFeedback: a 500 response
ErrorResponse == <<[status |-> 500, success |-> FALSE]>>

jobLocals == <<feedbackItems, labelEmbeddings, allEmbeddings, i, classified, failed,
               batchResults>>

\* SELECT id, content FROM feedback; then batchClassifyFeedback is entered
StartJob ==
    /\ pc = "idle"
    /\ feedbackItems' = feedback
    /\ labelEmbeddings' = <<>>
    /\ pc' = "anchors"
    /\ UNCHANGED <<cosineVars, summaryVars, seedVars, single, aiModel, feedback, classifications, allEmbeddings, i, classified,
                   failed, batchResults, aiCalls, dbCalls, response>>

\* the read of the feedback table fails
StartJobReadFails ==
    /\ pc = "idle"
    /\ pc' = "done"
    /\ response' = ErrorResponse
    /\ UNCHANGED <<cosineVars, summaryVars, seedVars, single, aiModel, feedback, classifications, jobLocals, aiCalls, dbCalls>>

\* the service's answer to the batched request for one category's labels
AnchorData(m, labelDef) == [index \in 1..Len(labelDef.labels) |-> EmbedLabel(m, index)]

\* labelDef.labels.map((label, index) => ({label, embedding: embeddingData[index]}))
CategoryEmbeddings(labelDef, embeddingData) ==
    [category |-> labelDef.category,
     embeddings |-> [index \in 1..Len(labelDef.labels) |->
                        [label |-> labelDef.labels[index],
                         embedding |-> embeddingData[index]]]]

\* precomputeLabelEmbeddings: one iteration whose ai.run resolves
AnchorCall ==
    /\ pc = "anchors"
    /\ LET c == Len(labelEmbeddings) + 1
           labelDef == LABEL_DEFINITIONS[c]
           embeddingData == AnchorData(aiModel, labelDef)
       IN  /\ aiCalls' = Append(aiCalls, [kind |-> "anchor", offset |-> c,
                                          size |-> Len(labelDef.labels), ok |-> TRUE,
                                          data |-> embeddingData])
           /\ labelEmbeddings' = Append(labelEmbeddings,
                                        CategoryEmbeddings(labelDef, embeddingData))
           /\ IF c = NCategories
              THEN pc' = "chunks" /\ allEmbeddings' = <<>> /\ i' = 0
              ELSE UNCHANGED <<pc, allEmbeddings, i>>
    /\ UNCHANGED <<cosineVars, summaryVars, seedVars, single, aiModel, feedback, classifications, feedbackItems, classified, failed,
                   batchResults, dbCalls, response>>

\* a catch that logs and returns the categories embedded so far
AnchorCallFails_Swallowed ==
    /\ pc = "anchors"
    /\ LET c == Len(labelEmbeddings) + 1
       IN  aiCalls' = Append(aiCalls, [kind |-> "anchor", offset |-> c,
                                       size |-> Len(LABEL_DEFINITIONS[c].labels),
                                       ok |-> FALSE, data |-> <<>>])
    /\ pc' = "chunks"
    /\ allEmbeddings' = <<>>
    /\ i' = 0
    /\ UNCHANGED <<cosineVars, summaryVars, seedVars, single, aiModel, feedback, classifications, feedbackItems,
                   labelEmbeddings, classified, failed, batchResults, dbCalls, response>>

\* precomputeLabelEmbeddings: ai.run rejects; the catch rethrows, the job
\* rejects and classifyAllFeedback answers 500
AnchorCallFails ==
    /\ pc = "anchors"
    /\ LET c == Len(labelEmbeddings) + 1
       IN  aiCalls' = Append(aiCalls, [kind |-> "anchor", offset |-> c,
                                       size |-> Len(LABEL_DEFINITIONS[c].labels),
                                       ok |-> FALSE, data |-> <<>>])
    /\ pc' = "done"
    /\ response' = ErrorResponse
    /\ UNCHANGED <<cosineVars, summaryVars, seedVars, single, aiModel, feedback, classifications, jobLocals, dbCalls>>

\* What the service answers for a chunk of texts.
\*   "full"   one vector per text, in order
\*   "short"  the last text's vector is missing
\*   "hole"   the first element is null
ChunkShapes == {"full", "short", "hole"}

ChunkData(chunkTexts, shape) ==
    LET full == [k \in 1..Len(chunkTexts) |-> EmbedText(chunkTexts[k])]
    IN  CASE shape = "full" -> full
          [] shape = "short" -> SubSeq(full, 1, Len(full) - 1)
          [] shape = "hole" -> [k \in 1..Len(full) |-> IF k = 1 THEN NoVector ELSE full[k]]

\* a slice that takes one item too many
ChunkAt_OneMore(items, offset) == Slice(items, offset, offset + chunkSize + 1)

\* feedbackItems.slice(i, i + chunkSize)
ChunkAt(items, offset) == Slice(items, offset, offset + chunkSize)

\* allEmbeddings.push(...chunkEmbeddings)
PushAll(embeddings, chunkEmbeddings) == embeddings \o chunkEmbeddings

\* Step 2: one iteration of the chunk loop whose ai.run resolves
EmbedChunk ==
    /\ pc = "chunks"
    /\ i < Len(feedbackItems)
    /\ \E shape \in ChunkShapes :
        LET chunk == ChunkAt(feedbackItems, i)
            chunkTexts == [k \in 1..Len(chunk) |-> chunk[k].content]
            chunkEmbeddings == ChunkData(chunkTexts, shape)
        IN  /\ aiCalls' = Append(aiCalls, [kind |-> "items", offset |-> i,
                                           size |-> Len(chunkTexts), ok |-> TRUE,
                                           data |-> chunkEmbeddings])
            /\ allEmbeddings' = PushAll(allEmbeddings, chunkEmbeddings)
    /\ i' = i + chunkSize
    /\ UNCHANGED <<cosineVars, summaryVars, seedVars, single, aiModel, feedback, classifications, pc, feedbackItems, labelEmbeddings,
                   classified, failed, batchResults, dbCalls, response>>

\* a chunk loop that, when a call rejects, stores a record for the first
\* item embedded so far before the error goes on
EmbedChunkFails_SavesEmbeddedSoFar ==
    /\ pc = "chunks"
    /\ i < Len(feedbackItems)
    /\ aiCalls' = Append(aiCalls, [kind |-> "items", offset |-> i,
                                   size |-> Len(ChunkAt(feedbackItems, i)),
                                   ok |-> FALSE, data |-> <<>>])
    /\ IF /\ allEmbeddings # <<>>
          /\ allEmbeddings[1] # NoVector
          /\ ~ClassifyThrows(allEmbeddings[1], labelEmbeddings)
       THEN /\ classifications' =
                   Append(classifications,
                          InsertRow(feedbackItems[1].id,
                                    BulkClassifications(allEmbeddings[1], labelEmbeddings)))
            /\ dbCalls' = Append(dbCalls, [offset |-> 0, ok |-> TRUE,
                                           ids |-> <<feedbackItems[1].id>>])
       ELSE UNCHANGED <<classifications, dbCalls>>
    /\ pc' = "done"
    /\ response' = ErrorResponse
    /\ UNCHANGED <<cosineVars, summaryVars, seedVars, single, aiModel, feedback, jobLocals>>

\* Step 2: ai.run rejects; nothing catches it before classifyAllFeedback
EmbedChunkFails ==
    /\ pc = "chunks"
    /\ i < Len(feedbackItems)
    /\ aiCalls' = Append(aiCalls, [kind |-> "items", offset |-> i,
                                   size |-> Len(ChunkAt(feedbackItems, i)),
                                   ok |-> FALSE, data |-> <<>>])
    /\ pc' = "done"
    /\ response' = ErrorResponse
    /\ UNCHANGED <<cosineVars, summaryVars, seedVars, single, aiModel, feedback, classifications, jobLocals, dbCalls>>

\* feedbackEmbeddings[k] of the 1-based position k (undefined past the end)
EmbeddingAt(embeddings, k) == IF k <= Len(embeddings) THEN embeddings[k] ELSE NoVector

\* an iteration that lets the last of several equal maxima win at the even
\* positions
ClassifyItem_EvenLastWins(items, embeddings, lblEmbeddings, k) ==
    LET feedbackEmbedding == EmbeddingAt(embeddings, k)
    IN  IF feedbackEmbedding = NoVector THEN <<>>
        ELSE IF ClassifyThrows(feedbackEmbedding, lblEmbeddings) THEN <<>>
        ELSE <<[id |-> items[k].id,
                classifications |->
                    [cat \in {lblEmbeddings[c].category : c \in 1..Len(lblEmbeddings)} |->
                        LET similarities ==
                                Similarities(feedbackEmbedding,
                                             lblEmbeddings[CategoryIndex(lblEmbeddings, cat)])
                            bestMatch ==
                                IF k % 2 = 0
                                THEN ReduceMax_LastWins(similarities, 2, similarities[1])
                                ELSE BestMatch(similarities)
                        IN  [category |-> cat,
                             label |-> extractLabelName(bestMatch.label),
                             confidence |-> bestMatch.score]]]>>

\* Step 3, one iteration: what the item at position k (1-based) pushes to
\* batchResults: nothing when it has no vector or cosineSimilarity throws
ClassifyItem(items, embeddings, lblEmbeddings, k) ==
    LET feedbackEmbedding == EmbeddingAt(embeddings, k)
    IN  IF feedbackEmbedding = NoVector THEN <<>>
        ELSE IF ClassifyThrows(feedbackEmbedding, lblEmbeddings) THEN <<>>
        ELSE <<[id |-> items[k].id,
                classifications |-> BulkClassifications(feedbackEmbedding, lblEmbeddings)]>>

\* Step 3: batchResults after the iterations for positions lo..hi, in order
RECURSIVE ClassifyRange(_, _, _, _, _)
ClassifyRange(items, embeddings, lblEmbeddings, lo, hi) ==
    IF lo > hi THEN <<>>
    ELSE IF lo = hi THEN ClassifyItem(items, embeddings, lblEmbeddings, lo)
    ELSE LET mid == (lo + hi) \div 2
         IN  ClassifyRange(items, embeddings, lblEmbeddings, lo, mid)
             \o ClassifyRange(items, embeddings, lblEmbeddings, mid + 1, hi)

\* a guard that skips the item without counting it
FailedCount_SkipUncounted(items, embeddings, lblEmbeddings) ==
    Cardinality({k \in 1..Len(items) :
                    /\ EmbeddingAt(embeddings, k) # NoVector
                    /\ ClassifyThrows(EmbeddingAt(embeddings, k), lblEmbeddings)})

\* a loop that counts an item without a vector at the guard and again in
\* the catch
FailedCount_MissingCountedTwice(items, embeddings, lblEmbeddings) ==
    2 * Cardinality({k \in 1..Len(items) : EmbeddingAt(embeddings, k) = NoVector})
    + Cardinality({k \in 1..Len(items) :
                      /\ EmbeddingAt(embeddings, k) # NoVector
                      /\ ClassifyThrows(EmbeddingAt(embeddings, k), lblEmbeddings)})

\* Step 3: failed after the loop: one increment per position that has no
\* vector, one per position whose try block throws
FailedCount(items, embeddings, lblEmbeddings) ==
    Cardinality({k \in 1..Len(items) : EmbeddingAt(embeddings, k) = NoVector})
    + Cardinality({k \in 1..Len(items) :
                      /\ EmbeddingAt(embeddings, k) # NoVector
                      /\ ClassifyThrows(EmbeddingAt(embeddings, k), lblEmbeddings)})

\* a loop with a refinement gate: every result whose winning urgency label
\* is critical goes through one call of the text-completion model
ClassifyLoop_WithRefinementGate ==
    /\ pc = "chunks"
    /\ i >= Len(feedbackItems)
    /\ batchResults' = ClassifyRange(feedbackItems, allEmbeddings, labelEmbeddings,
                                      1, Len(feedbackItems))
    /\ completionCalls' =
           completionCalls \o
           [n \in 1..Cardinality({k \in 1..Len(batchResults') :
                                     batchResults'[k].classifications["urgency"].label
                                         = "critical"}) |->
               [kind |-> "refine", ok |-> TRUE]]
    /\ classified' = Len(batchResults')
    /\ failed' = FailedCount(feedbackItems, allEmbeddings, labelEmbeddings)
    /\ pc' = "save"
    /\ i' = 0
    /\ UNCHANGED <<cosineVars, sPc, metrics, summaryResponse, refinement, seedVars, single,
                   aiModel, feedback, classifications, feedbackItems, labelEmbeddings,
                   allEmbeddings, aiCalls, dbCalls, response>>

\* a loop without the try/catch: the error of cosineSimilarity leaves the
\* loop and the job
ClassifyLoop_ThrowLeavesJob ==
    /\ pc = "chunks"
    /\ i >= Len(feedbackItems)
    /\ IF \E k \in 1..Len(feedbackItems) :
             /\ EmbeddingAt(allEmbeddings, k) # NoVector
             /\ ClassifyThrows(EmbeddingAt(allEmbeddings, k), labelEmbeddings)
       THEN /\ pc' = "done"
            /\ response' = ErrorResponse
            /\ UNCHANGED <<batchResults, classified, failed, i>>
       ELSE /\ batchResults' = ClassifyRange(feedbackItems, allEmbeddings, labelEmbeddings,
                                              1, Len(feedbackItems))
            /\ classified' = Len(batchResults')
            /\ failed' = FailedCount(feedbackItems, allEmbeddings, labelEmbeddings)
            /\ pc' = "save"
            /\ i' = 0
            /\ UNCHANGED response
    /\ UNCHANGED <<cosineVars, summaryVars, seedVars, single, aiModel, feedback, classifications,
                   feedbackItems, labelEmbeddings, allEmbeddings, aiCalls, dbCalls>>

\* Step 3: the classification loop (synchronous)
ClassifyLoop ==
    /\ pc = "chunks"
    /\ i >= Len(feedbackItems)
    /\ batchResults' = ClassifyRange(feedbackItems, allEmbeddings, labelEmbeddings,
                                      1, Len(feedbackItems))
    \* classified++ follows every push
    /\ classified' = Len(batchResults')
    /\ failed' = FailedCount(feedbackItems, allEmbeddings, labelEmbeddings)
    /\ pc' = "save"
    /\ i' = 0
    /\ UNCHANGED <<cosineVars, summaryVars, seedVars, single, aiModel, feedback, classifications, feedbackItems, labelEmbeddings,
                   allEmbeddings, aiCalls, dbCalls, response>>

\* FOREIGN KEY (feedback_id) REFERENCES feedback(id): every record of the
\* batch refers to a row of the feedback table
ReferencesHold(chunk) ==
    \A k \in 1..Len(chunk) : \E f \in 1..Len(feedback) : feedback[f].id = chunk[k].id

\* a save loop whose groups overlap by one record
SaveBatch_Overlapping ==
    /\ pc = "save"
    /\ i < Len(batchResults)
    /\ LET chunk == Slice(batchResults, i, i + saveChunkSize)
           batch == [k \in 1..Len(chunk) |-> InsertRow(chunk[k].id, chunk[k].classifications)]
       IN  /\ ReferencesHold(chunk)
           /\ classifications' = classifications \o batch
           /\ dbCalls' = Append(dbCalls, [offset |-> i, ok |-> TRUE,
                                          ids |-> [k \in 1..Len(chunk) |-> chunk[k].id]])
    /\ i' = IF i + saveChunkSize < Len(batchResults) THEN i + saveChunkSize - 1
            ELSE i + saveChunkSize
    /\ UNCHANGED <<cosineVars, summaryVars, seedVars, single, aiModel, feedback, pc, feedbackItems,
                   labelEmbeddings, allEmbeddings, classified, failed, batchResults,
                   aiCalls, response>>

\* a save loop that replaces the record an item already has
SaveBatch_Upsert ==
    /\ pc = "save"
    /\ i < Len(batchResults)
    /\ LET chunk == Slice(batchResults, i, i + saveChunkSize)
           batch == [k \in 1..Len(chunk) |-> InsertRow(chunk[k].id, chunk[k].classifications)]
           kept == SelectSeq(classifications,
                             LAMBDA row : \A k \in 1..Len(chunk) : chunk[k].id # row.feedback_id)
       IN  /\ ReferencesHold(chunk)
           /\ classifications' = kept \o batch
           /\ dbCalls' = Append(dbCalls, [offset |-> i, ok |-> TRUE,
                                          ids |-> [k \in 1..Len(chunk) |-> chunk[k].id]])
    /\ i' = i + saveChunkSize
    /\ UNCHANGED <<cosineVars, summaryVars, seedVars, single, aiModel, feedback, pc,
                   feedbackItems, labelEmbeddings, allEmbeddings, classified, failed,
                   batchResults, aiCalls, response>>

\* one iteration of the save loop whose db.batch resolves: every statement
\* of the batch is applied
SaveBatch ==
    /\ pc = "save"
    /\ i < Len(batchResults)
    /\ LET chunk == Slice(batchResults, i, i + saveChunkSize)
           batch == [k \in 1..Len(chunk) |-> InsertRow(chunk[k].id, chunk[k].classifications)]
       IN  /\ ReferencesHold(chunk)
           /\ classifications' = classifications \o batch
           /\ dbCalls' = Append(dbCalls, [offset |-> i, ok |-> TRUE,
                                          ids |-> [k \in 1..Len(chunk) |-> chunk[k].id]])
    /\ i' = i + saveChunkSize
    /\ UNCHANGED <<cosineVars, summaryVars, seedVars, single, aiModel, feedback, pc, feedbackItems, labelEmbeddings, allEmbeddings,
                   classified, failed, batchResults, aiCalls, response>>

\* statements run one by one: the first is applied before the failure
SaveBatchFails_OneByOne ==
    /\ pc = "save"
    /\ i < Len(batchResults)
    /\ LET chunk == Slice(batchResults, i, i + saveChunkSize)
       IN  /\ dbCalls' = Append(dbCalls, [offset |-> i, ok |-> FALSE,
                                          ids |-> [k \in 1..Len(chunk) |-> chunk[k].id]])
           /\ classifications' = Append(classifications,
                                        InsertRow(chunk[1].id, chunk[1].classifications))
    /\ pc' = "done"
    /\ response' = ErrorResponse
    /\ UNCHANGED <<cosineVars, summaryVars, seedVars, single, aiModel, feedback, jobLocals, aiCalls>>

\* db.batch rejects (a storage failure, or a record that refers to no row
\* of the feedback table): none of its statements is applied, and the error
\* leaves batchClassifyFeedback
SaveBatchFails ==
    /\ pc = "save"
    /\ i < Len(batchResults)
    /\ LET chunk == Slice(batchResults, i, i + saveChunkSize)
       IN  dbCalls' = Append(dbCalls, [offset |-> i, ok |-> FALSE,
                                       ids |-> [k \in 1..Len(chunk) |-> chunk[k].id]])
    /\ pc' = "done"
    /\ response' = ErrorResponse
    /\ UNCHANGED <<cosineVars, summaryVars, seedVars, single, aiModel, feedback, classifications, jobLocals, aiCalls>>

\* return { classified, failed }, and the 200 response built from it
ReturnCounts ==
    /\ pc = "save"
    /\ i >= Len(batchResults)
    /\ pc' = "done"
    /\ response' = <<[status |-> 200, success |-> TRUE, classified |-> classified,
                      failed |-> failed, total |-> Len(feedbackItems)]>>
    /\ UNCHANGED <<cosineVars, summaryVars, seedVars, single, aiModel, feedback, classifications, jobLocals, aiCalls, dbCalls>>

-----------------------------------------------------------------------------
(* The single-item path: classifyFeedback and saveClassifications           *)

\* what precomputeLabelEmbeddings returns when all five calls resolve
PrecomputedLabelEmbeddings(m) ==
    [c \in 1..NCategories |->
        CategoryEmbeddings(LABEL_DEFINITIONS[c], AnchorData(m, LABEL_DEFINITIONS[c]))]

Abs(x) == IF x < 0 THEN -x ELSE x

MaxScore(similarities) ==
    CHOOSE x \in {similarities[k].score : k \in 1..Len(similarities)} :
        \A k \in 1..Len(similarities) : similarities[k].score <= x

\* the scores of similarities.sort((a, b) => b.score - a.score).slice(0, 2)
TopTwoScores(similarities) ==
    LET top == MaxScore(similarities)
        first == CHOOSE k \in 1..Len(similarities) : similarities[k].score = top
        rest == SelectSeq([k \in 1..Len(similarities) |->
                              [at |-> k, score |-> similarities[k].score]],
                          LAMBDA e : e.at # first)
    IN  IF Len(rest) = 0 THEN <<top>> ELSE <<top, MaxScore(rest)>>

\* bestMatch.label.startsWith('critical'): the label's first word begins it
StartsWithCritical(fullLabel) == fullLabel[1] = "critical"

\* lowestConfidence after the loop, from 1.0
LowestConfidence(cls) ==
    CHOOSE x \in {Scale} \cup {cls[cat].confidence : cat \in DOMAIN cls} :
        \A cat \in DOMAIN cls : x <= cls[cat].confidence /\ x <= Scale

\* a refinement decision that leaves the polarity gap out
NeedsRefinement_NoMixedSentiment(lowestConfidence, hasCriticalUrgency, hasMixedSentiment) ==
    lowestConfidence < LowConfidence \/ hasCriticalUrgency

\* needsRefinement = lowestConfidence < 0.65 || hasCriticalUrgency || hasMixedSentiment
NeedsRefinement(lowestConfidence, hasCriticalUrgency, hasMixedSentiment) ==
    lowestConfidence < LowConfidence \/ hasCriticalUrgency \/ hasMixedSentiment

\* a reason chosen with the urgency test ahead of the confidence test
RefinementReason_CriticalFirst(lowestConfidence, hasCriticalUrgency, hasMixedSentiment) ==
    IF ~NeedsRefinement(lowestConfidence, hasCriticalUrgency, hasMixedSentiment) THEN <<>>
    ELSE IF hasCriticalUrgency THEN <<"critical_urgency">>
    ELSE IF lowestConfidence < LowConfidence THEN <<"low_confidence">>
    ELSE <<"mixed_sentiment">>

\* refinementReason: undefined (<<>>) unless needsRefinement, else the first
\* of the if / else if chain
RefinementReason(lowestConfidence, hasCriticalUrgency, hasMixedSentiment) ==
    IF ~NeedsRefinement(lowestConfidence, hasCriticalUrgency, hasMixedSentiment) THEN <<>>
    ELSE IF lowestConfidence < LowConfidence THEN <<"low_confidence">>
    ELSE IF hasCriticalUrgency THEN <<"critical_urgency">>
    ELSE IF hasMixedSentiment THEN <<"mixed_sentiment">>
    ELSE <<>>

\* classifyFeedback, given the vector the service answered with
classifyFeedback(feedbackEmbedding, feedbackId, lblEmbeddings) ==
    LET cls == BulkClassifications(feedbackEmbedding, lblEmbeddings)
        lowestConfidence == LowestConfidence(cls)
        hasCriticalUrgency ==
            \E c \in 1..Len(lblEmbeddings) :
                /\ lblEmbeddings[c].category = "urgency"
                /\ StartsWithCritical(
                       BestMatch(Similarities(feedbackEmbedding, lblEmbeddings[c])).label)
        hasMixedSentiment ==
            \E c \in 1..Len(lblEmbeddings) :
                /\ lblEmbeddings[c].category = "polarity"
                /\ LET topTwo == TopTwoScores(Similarities(feedbackEmbedding,
                                                           lblEmbeddings[c]))
                   IN  Len(topTwo) = 2 /\ Abs(topTwo[1] - topTwo[2]) < MixedSentimentGap
    IN  [feedbackId |-> feedbackId,
         classifications |-> cls,
         needsRefinement |->
             NeedsRefinement(lowestConfidence, hasCriticalUrgency, hasMixedSentiment),
         refinementReason |->
             RefinementReason(lowestConfidence, hasCriticalUrgency, hasMixedSentiment)]

\* classifyFeedback called for one row of the feedback table, with the
\* anchors precomputeLabelEmbeddings returns; ai.run resolves
ClassifySingle ==
    /\ pc = "idle"
    /\ \E k \in 1..Min(Len(feedback), MaxItems + 1) :
        LET feedbackEmbedding == EmbedText(feedback[k].content)
            lblEmbeddings == PrecomputedLabelEmbeddings(aiModel)
        IN  /\ ~ClassifyThrows(feedbackEmbedding, lblEmbeddings)
            /\ single' = <<classifyFeedback(feedbackEmbedding, feedback[k].id,
                                            lblEmbeddings)>>
            /\ aiCalls' = Append(aiCalls, [kind |-> "single", offset |-> k, size |-> 1,
                                           ok |-> TRUE, data |-> <<feedbackEmbedding>>])
    /\ pc' = "classified"
    /\ UNCHANGED <<cosineVars, summaryVars, seedVars, aiModel, feedback, classifications, jobLocals, dbCalls,
                   response>>

\* saveClassifications(db, feedbackId, classifications) for that result
SaveClassifications ==
    /\ pc = "classified"
    /\ classifications' = Append(classifications,
                                 InsertRow(single[1].feedbackId, single[1].classifications))
    /\ pc' = "done"
    /\ UNCHANGED <<cosineVars, summaryVars, seedVars, single, aiModel, feedback, jobLocals, aiCalls, dbCalls, response>>

-----------------------------------------------------------------------------
(* The read paths.  SQL conditions are three-valued: "T", "F" or "N" (NULL). *)

And3(a, b) == IF a = "F" \/ b = "F" THEN "F" ELSE IF a = "T" /\ b = "T" THEN "T" ELSE "N"

Or3(a, b) == IF a = "T" \/ b = "T" THEN "T" ELSE IF a = "F" /\ b = "F" THEN "F" ELSE "N"

\* text = 'literal'
EqText(text, literal) == IF text = NullText THEN "N" ELSE IF text = literal THEN "T" ELSE "F"

\* a comparison that lets the boundary value through
Gt_OrEqual(real, number) == IF real = <<>> THEN "N" ELSE IF real[1] >= number THEN "T" ELSE "F"

\* real > number
Gt(real, number) == IF real = <<>> THEN "N" ELSE IF real[1] > number THEN "T" ELSE "F"

\* urgency_confidence > 0.5
AboveThreshold(real) == Gt(real, UrgencyThreshold)

\* urgency_confidence <= 0.5
AtMostThreshold(real) ==
    IF real = <<>> THEN "N" ELSE IF real[1] <= UrgencyThreshold THEN "T" ELSE "F"

\* the columns of c for a feedback row the LEFT JOIN finds no classification for
NullClassification ==
    [feedback_id |-> 0, sentiment |-> NullText, sentiment_confidence |-> <<>>,
     urgency |-> NullText, urgency_confidence |-> <<>>,
     product_detected |-> NullText, product_confidence |-> <<>>,
     feedback_type |-> NullText, feedback_type_confidence |-> <<>>,
     churn_risk |-> NullText]

\* CASE WHEN c.urgency = 'critical' AND c.urgency_confidence > 0.5 THEN 'critical'
\*      WHEN c.urgency = 'critical' THEN 'high' ELSE c.urgency END
UrgencyCase(c) ==
    IF And3(EqText(c.urgency, "critical"), AboveThreshold(c.urgency_confidence)) = "T"
    THEN "critical"
    ELSE IF EqText(c.urgency, "critical") = "T" THEN "high"
    ELSE c.urgency

\* the CASE of ORDER BY when sort = importance
ImportanceRank(c) ==
    IF And3(EqText(c.urgency, "critical"), AboveThreshold(c.urgency_confidence)) = "T"
    THEN 3
    ELSE IF Or3(EqText(c.urgency, "high"),
                And3(EqText(c.urgency, "critical"),
                     AtMostThreshold(c.urgency_confidence))) = "T"
    THEN 2
    ELSE 1

\* feedback f LEFT JOIN classifications c ON f.id = c.feedback_id, for one f
LeftJoinRows(f) ==
    LET matches == SelectSeq(classifications, LAMBDA c : c.feedback_id = f.id)
    IN  IF matches = <<>> THEN <<NullClassification>> ELSE matches

\* classifications c JOIN feedback f ON c.feedback_id = f.id: the c that join
JoinRows ==
    SelectSeq(classifications,
              LAMBDA c : \E k \in 1..Len(feedback) : feedback[k].id = c.feedback_id)

\* getFeedback without filters: the rows for one feedback row
FeedbackListRows(f) ==
    LET joined == LeftJoinRows(f)
    IN  [n \in 1..Len(joined) |->
            [id |-> f.id, content |-> f.content,
             sentiment |-> joined[n].sentiment,
             urgency |-> UrgencyCase(joined[n]),
             product_detected |-> joined[n].product_detected,
             feedback_type |-> joined[n].feedback_type]]

\* getFeedbackById: .first() of the joined rows of that id, <<>> for the 404
getFeedbackById(id) ==
    LET found == SelectSeq(feedback, LAMBDA f : f.id = id)
    IN  IF found = <<>> THEN <<>>
        ELSE LET c == LeftJoinRows(found[1])[1]
             IN  <<[id |-> id, content |-> found[1].content,
                    sentiment |-> c.sentiment,
                    sentiment_confidence |-> c.sentiment_confidence,
                    urgency |-> UrgencyCase(c),
                    urgency_confidence |-> c.urgency_confidence,
                    product_detected |-> c.product_detected,
                    product_confidence |-> c.product_confidence,
                    feedback_type |-> c.feedback_type,
                    feedback_type_confidence |-> c.feedback_type_confidence]>>

\* prepareMetricsForSummary without startDate: criticalCount
SummaryCriticalCount ==
    Cardinality({n \in 1..Len(JoinRows) :
        And3(EqText(JoinRows[n].urgency, "critical"),
             AboveThreshold(JoinRows[n].urgency_confidence)) = "T"})

\* prepareMetricsForSummary without startDate: highCount
SummaryHighCount ==
    Cardinality({n \in 1..Len(JoinRows) :
        Or3(EqText(JoinRows[n].urgency, "high"),
            And3(EqText(JoinRows[n].urgency, "critical"),
                 AtMostThreshold(JoinRows[n].urgency_confidence))) = "T"})

\* getTrendDataForSummary: SUM(CASE WHEN ... THEN 1 ELSE 0 END) as critical,
\* over all dates
TrendCriticalCount ==
    Cardinality({n \in 1..Len(JoinRows) :
        And3(EqText(JoinRows[n].urgency, "critical"),
             AboveThreshold(JoinRows[n].urgency_confidence)) = "T"})

\* getMetrics, urgencyDistribution.  GROUP BY urgency names the column
\* c.urgency (a column name is resolved before a result alias), so there is
\* one row per raw label; its urgency is the CASE of one row of the group,
\* whichever the engine visits, and its count is the size of the raw group.
\* The rows a result can hold:
MetricsUrgencyRows ==
    {[urgency |-> UrgencyCase(JoinRows[n]),
      count |-> Cardinality({k \in 1..Len(JoinRows) :
                                JoinRows[k].urgency = JoinRows[n].urgency})] :
        n \in 1..Len(JoinRows)}

-----------------------------------------------------------------------------
(* The text-completion model: GET /api/summary and refineCriticalFeedback.
   A string is a tuple of pieces; it is empty when every piece is "".       *)

EmptyText(text) == \A k \in 1..Len(text) : text[k] = ""

\* what ai.run('@cf/meta/llama-3.1-8b-instruct') resolves with: an object
\* with a response string (possibly empty), or an object without one
CompletionAnswers ==
    {[hasResponse |-> TRUE, response |-> <<"prose">>],
     [hasResponse |-> TRUE, response |-> <<"">>],
     [hasResponse |-> FALSE, response |-> <<>>]}

\* what ai.run rejects with: an Error with a message (possibly empty), or a
\* value that is no Error
CompletionErrors ==
    {[isError |-> TRUE, message |-> "timeout"],
     [isError |-> TRUE, message |-> ""],
     [isError |-> FALSE, message |-> ""]}

\* error instanceof Error ? error.message : 'Unknown error'
ErrorMessage(error) == IF error.isError THEN error.message ELSE "Unknown error"

\* a selection that tests the 30-day rule ahead of the 7-day volume rule
WindowContext_30dFirst(m) ==
    LET hasUrgent7d == m.recent7d.criticalCount > 0
        hasImportan7d == m.recent7d.highCount >= Important7dMinimum
        hasCritical30d == m.recent30d.criticalCount >= Critical30dMinimum
    IN  IF hasUrgent7d
        THEN <<"FOCUS: Urgent issues from the last 7 days (",
               m.recent7d.criticalCount, " critical items).">>
        ELSE IF ~hasCritical30d
        THEN <<"FOCUS: Long-term trends and issues from the past year (fallback due to low 30-day volume).">>
        ELSE IF ~hasImportan7d
        THEN <<"FOCUS: Issues from the last 30 days (fallback due to low 7-day volume).">>
        ELSE <<"FOCUS: Recent 30-day performance trends.">>

\* the windowContext of generateExecutiveSummary
WindowContext(m) ==
    LET hasUrgent7d == m.recent7d.criticalCount > 0
        hasImportan7d == m.recent7d.highCount >= Important7dMinimum
        hasCritical30d == m.recent30d.criticalCount >= Critical30dMinimum
    IN  IF hasUrgent7d
        THEN <<"FOCUS: Urgent issues from the last 7 days (",
               m.recent7d.criticalCount, " critical items).">>
        ELSE IF ~hasImportan7d
        THEN <<"FOCUS: Issues from the last 30 days (fallback due to low 7-day volume).">>
        ELSE IF ~hasCritical30d
        THEN <<"FOCUS: Long-term trends and issues from the past year (fallback due to low 30-day volume).">>
        ELSE <<"FOCUS: Recent 30-day performance trends.">>

\* (response as any).response || 'Summary generation in progress...'
SummaryOf(answer) ==
    IF answer.hasResponse /\ ~EmptyText(answer.response)
    THEN answer.response
    ELSE <<"Summary generation in progress...">>

\* a catch block that hands the error on
SummaryOnError_Rethrown(error) == <<>>

\* the catch of generateExecutiveSummary
SummaryOnError(error) == <<"Unable to generate summary: ", ErrorMessage(error)>>

\* the metrics a window's prepareMetricsForSummary answers with, as far as
\* generateExecutiveSummary tests them
Counts == 0..MaxCount

\* getExecutiveSummary: the three prepareMetricsForSummary reads and
\* getLatestCriticalFeedback resolve.  Each is a read of its own, so the
\* counts of the windows are not tied to one another.
SummaryRequest ==
    /\ sPc = "idle"
    /\ \E critical7d \in Counts, high7d \in Counts, critical30d \in Counts :
          metrics' = <<[recent7d |-> [criticalCount |-> critical7d, highCount |-> high7d],
                        recent30d |-> [criticalCount |-> critical30d]]>>
    /\ sPc' = "composing"
    /\ UNCHANGED <<cosineVars, pipelineVars, seedVars, completionCalls, summaryResponse, refinement>>

\* getExecutiveSummary: one of the four reads rejects; Promise.all rejects and
\* the catch answers
SummaryReadFails ==
    /\ sPc = "idle"
    /\ summaryResponse' = <<[status |-> 500, summary |-> <<>>,
                             error |-> "Failed to generate executive summary"]>>
    /\ sPc' = "answered"
    /\ UNCHANGED <<cosineVars, pipelineVars, seedVars, metrics, completionCalls, refinement>>

\* generateExecutiveSummary with ai.run resolving, then the response
ComposeSummary ==
    /\ sPc = "composing"
    /\ \E answer \in CompletionAnswers :
          /\ completionCalls' = Append(completionCalls,
                 [kind |-> "summary", windowContext |-> WindowContext(metrics[1]),
                  ok |-> TRUE])
          /\ summaryResponse' = <<[status |-> 200, summary |-> SummaryOf(answer),
                                   error |-> ""]>>
    /\ sPc' = "answered"
    /\ UNCHANGED <<cosineVars, pipelineVars, seedVars, metrics, refinement>>

\* a generateExecutiveSummary that calls the model a second time when the
\* first call rejects
ComposeSummaryFails_RetriedOnce ==
    /\ sPc = "composing"
    /\ \E answer \in CompletionAnswers :
          /\ completionCalls' = completionCalls \o
                 <<[kind |-> "summary", windowContext |-> WindowContext(metrics[1]),
                    ok |-> FALSE],
                   [kind |-> "summary", windowContext |-> WindowContext(metrics[1]),
                    ok |-> TRUE]>>
          /\ summaryResponse' = <<[status |-> 200, summary |-> SummaryOf(answer),
                                   error |-> ""]>>
    /\ sPc' = "answered"
    /\ UNCHANGED <<cosineVars, pipelineVars, seedVars, metrics, refinement>>

\* generateExecutiveSummary with ai.run rejecting, then the response: the
\* text of the catch, or the 500 of getExecutiveSummary's catch should
\* generateExecutiveSummary reject
ComposeSummaryFails ==
    /\ sPc = "composing"
    /\ \E error \in CompletionErrors :
          /\ completionCalls' = Append(completionCalls,
                 [kind |-> "summary", windowContext |-> WindowContext(metrics[1]),
                  ok |-> FALSE])
          /\ summaryResponse' =
                 IF SummaryOnError(error) = <<>>
                 THEN <<[status |-> 500, summary |-> <<>>,
                         error |-> "Failed to generate executive summary"]>>
                 ELSE <<[status |-> 200, summary |-> SummaryOnError(error),
                         error |-> ""]>>
    /\ sPc' = "answered"
    /\ UNCHANGED <<cosineVars, pipelineVars, seedVars, metrics, refinement>>

\* classifications.<category>?.label || 'unknown' and
\* classifications.<category>?.confidence.toFixed(2) || 'N/A' of the prompt
PromptLine(cls, cat) ==
    IF cat \in DOMAIN cls
    THEN [label |-> cls[cat].label, confidence |-> <<cls[cat].confidence>>]
    ELSE [label |-> "unknown", confidence |-> <<"N/A">>]

\* the prompt of refineCriticalFeedback
RefinePrompt(feedbackContent, cls) ==
    [feedback |-> feedbackContent,
     product |-> PromptLine(cls, "products"),
     sentiment |-> PromptLine(cls, "polarity"),
     urgency |-> PromptLine(cls, "urgency"),
     type |-> PromptLine(cls, "feedbackType")]

\* (response as any).response || JSON.stringify(response)
RefinementOf(answer) ==
    IF answer.hasResponse /\ ~EmptyText(answer.response)
    THEN answer.response
    ELSE IF answer.hasResponse THEN <<"{\"response\":\"\"}">> ELSE <<"{}">>

\* a catch block that hands the error on
RefinementOnError_Rethrown(error) == <<>>

\* the catch of refineCriticalFeedback
RefinementOnError(error) == <<"Refinement failed: ", ErrorMessage(error)>>

\* the results of classifyFeedback that refineCriticalFeedback is called for
RefinementInputs ==
    {[content |-> text,
      result |-> classifyFeedback(EmbedText(text), text, PrecomputedLabelEmbeddings(m))] :
        text \in {t \in Texts : Len(VecList[t]) = Len(VecList[1])}, m \in Models}

\* refineCriticalFeedback for an item flagged needsRefinement; ai.run resolves
RefineCritical ==
    /\ sPc = "idle"
    /\ \E input \in RefinementInputs, answer \in CompletionAnswers :
          /\ input.result.needsRefinement
          /\ completionCalls' = Append(completionCalls,
                 [kind |-> "refine",
                  prompt |-> RefinePrompt(input.content, input.result.classifications),
                  ok |-> TRUE])
          /\ refinement' = <<[given |-> input.result.classifications,
                              classifications |-> input.result.classifications,
                              threw |-> FALSE,
                              notes |-> RefinementOf(answer)]>>
    /\ sPc' = "refined"
    /\ UNCHANGED <<cosineVars, pipelineVars, seedVars, metrics, summaryResponse>>

\* refineCriticalFeedback for an item flagged needsRefinement; ai.run rejects
RefineCriticalFails ==
    /\ sPc = "idle"
    /\ \E input \in RefinementInputs, error \in CompletionErrors :
          /\ input.result.needsRefinement
          /\ completionCalls' = Append(completionCalls,
                 [kind |-> "refine",
                  prompt |-> RefinePrompt(input.content, input.result.classifications),
                  ok |-> FALSE])
          /\ refinement' = <<[given |-> input.result.classifications,
                              classifications |-> input.result.classifications,
                              threw |-> RefinementOnError(error) = <<>>,
                              notes |-> RefinementOnError(error)]>>
    /\ sPc' = "refined"
    /\ UNCHANGED <<cosineVars, pipelineVars, seedVars, metrics, summaryResponse>>

\* the state before any request: empty tables, no call made
InitCompletion ==
    /\ aiModel = 0
    /\ feedback = <<>>
    /\ classifications = <<>>
    /\ pc = "idle"
    /\ feedbackItems = <<>>
    /\ labelEmbeddings = <<>>
    /\ allEmbeddings = <<>>
    /\ i = 0
    /\ classified = 0
    /\ failed = 0
    /\ batchResults = <<>>
    /\ aiCalls = <<>>
    /\ dbCalls = <<>>
    /\ response = <<>>
    /\ single = <<>>
    /\ sPc = "idle"
    /\ metrics = <<>>
    /\ completionCalls = <<>>
    /\ summaryResponse = <<>>
    /\ refinement = <<>>
    /\ seedPc = "idle"
    /\ seeds = 0
    /\ jobs = 0
    /\ served = <<>>
    /\ seedResponse = <<>>
    /\ vecA = <<>>
    /\ vecB = <<>>
    /\ similarity = <<>>

NextCompletion ==
    \/ SummaryRequest
    \/ SummaryReadFails
    \/ ComposeSummary
    \/ ComposeSummaryFails
    \/ RefineCritical
    \/ RefineCriticalFails

CompletionSpec == InitCompletion /\ [][NextCompletion]_vars

-----------------------------------------------------------------------------
(* POST /api/seed, and classification requests one after another *)

\* the mock data, as the texts of its items
EXPANDED_FEEDBACK == [k \in 1..SeedItems |-> ((k - 1) % NVec) + 1]

\* seedDatabase: DELETE FROM classifications
SeedDeleteClassifications ==
    /\ seedPc = "idle"
    /\ seeds < MaxSeeds
    /\ seeds' = seeds + 1
    /\ classifications' = <<>>
    /\ seedPc' = "deleteFeedback"
    /\ seedResponse' = <<>>
    /\ UNCHANGED <<cosineVars, summaryVars, jobs, served, single, aiModel, feedback, pc, jobLocals, aiCalls,
                   dbCalls, response>>

\* seedDatabase: DELETE FROM feedback; the classifications of a deleted row
\* go with it (ON DELETE CASCADE)
SeedDeleteFeedback ==
    /\ seedPc = "deleteFeedback"
    /\ feedback' = <<>>
    /\ classifications' = <<>>
    /\ seedPc' = "insert"
    /\ UNCHANGED <<cosineVars, summaryVars, seeds, jobs, served, seedResponse, single, aiModel, pc, jobLocals, aiCalls,
                   dbCalls, response>>

\* the rows the seed inserts: id INTEGER PRIMARY KEY AUTOINCREMENT numbers
\* them after every id used before, those of deleted rows included
SeedRows ==
    [k \in 1..SeedItems |->
        [id |-> (seeds - 1) * SeedItems + k, content |-> EXPANDED_FEEDBACK[k]]]

\* seedDatabase: the INSERT INTO feedback batches; the mock data modelled
\* fits one batch of 50
SeedInsert ==
    /\ seedPc = "insert"
    /\ feedback' = feedback \o SeedRows
    /\ seedPc' = "count"
    /\ UNCHANGED <<cosineVars, summaryVars, seeds, jobs, served, seedResponse, single, aiModel, classifications, pc,
                   jobLocals, aiCalls, dbCalls, response>>

\* seedDatabase: SELECT COUNT(*) and the response
SeedRespond ==
    /\ seedPc = "count"
    /\ seedPc' = "idle"
    /\ seedResponse' = <<[status |-> 200, success |-> TRUE, count |-> Len(feedback)]>>
    /\ UNCHANGED <<cosineVars, summaryVars, seeds, jobs, served, pipelineVars>>

\* seedDatabase: a statement after the first rejects, and the catch answers
SeedFails ==
    /\ seedPc \in {"deleteFeedback", "insert", "count"}
    /\ seedPc' = "idle"
    /\ seedResponse' = <<[status |-> 500, success |-> FALSE, count |-> 0]>>
    /\ UNCHANGED <<cosineVars, summaryVars, seeds, jobs, served, pipelineVars>>

\* the ids of the records the db.batch calls of a job stored
StoredBy(calls) ==
    UNION {{calls[n].ids[k] : k \in 1..Len(calls[n].ids)} :
              n \in {m \in 1..Len(calls) : calls[m].ok}}

\* a classification request has been answered and the next one arrives:
\* its handler starts with fresh locals
NextClassifyRequest ==
    /\ pc = "done"
    /\ jobs + 1 < MaxJobs
    /\ jobs' = jobs + 1
    /\ served' = Append(served, [response |-> response[1], stored |-> StoredBy(dbCalls)])
    /\ pc' = "idle"
    /\ feedbackItems' = <<>>
    /\ labelEmbeddings' = <<>>
    /\ allEmbeddings' = <<>>
    /\ i' = 0
    /\ classified' = 0
    /\ failed' = 0
    /\ batchResults' = <<>>
    /\ aiCalls' = <<>>
    /\ dbCalls' = <<>>
    /\ response' = <<>>
    /\ UNCHANGED <<cosineVars, summaryVars, seedPc, seeds, seedResponse, single, aiModel,
                   feedback, classifications>>

\* the deployed worker before any request: both tables empty
InitRerun ==
    /\ aiModel = 0
    /\ feedback = <<>>
    /\ classifications = <<>>
    /\ pc = "idle"
    /\ feedbackItems = <<>>
    /\ labelEmbeddings = <<>>
    /\ allEmbeddings = <<>>
    /\ i = 0
    /\ classified = 0
    /\ failed = 0
    /\ batchResults = <<>>
    /\ aiCalls = <<>>
    /\ dbCalls = <<>>
    /\ response = <<>>
    /\ single = <<>>
    /\ sPc = "idle"
    /\ metrics = <<>>
    /\ completionCalls = <<>>
    /\ summaryResponse = <<>>
    /\ refinement = <<>>
    /\ seedPc = "idle"
    /\ seeds = 0
    /\ jobs = 0
    /\ served = <<>>
    /\ seedResponse = <<>>
    /\ vecA = <<>>
    /\ vecB = <<>>
    /\ similarity = <<>>

NextRerun ==
    \/ SeedDeleteClassifications
    \/ SeedDeleteFeedback
    \/ SeedInsert
    \/ SeedRespond
    \/ SeedFails
    \/ NextClassifyRequest
    \/ StartJob
    \/ StartJobReadFails
    \/ AnchorCall
    \/ AnchorCallFails
    \/ EmbedChunk
    \/ EmbedChunkFails
    \/ ClassifyLoop
    \/ SaveBatch
    \/ SaveBatchFails
    \/ ReturnCounts

RerunSpec == InitRerun /\ [][NextRerun]_vars

-----------------------------------------------------------------------------
(* cosineSimilarity called on its own *)

\* the vectors cosineSimilarity is called with: every vector of the bounds
\* whose magnitude is a whole number, so that every score is exact
CosineInputs ==
    {v \in UNION {[1..n -> (0 - MaxComponent)..MaxComponent] : n \in 0..MaxDim} :
        Magnitude(v) * Magnitude(v) = DotProduct(v, v)}

\* before the call: any two of the vectors, nothing else going on
InitCosine ==
    /\ aiModel = 0
    /\ feedback = <<>>
    /\ classifications = <<>>
    /\ pc = "idle"
    /\ feedbackItems = <<>>
    /\ labelEmbeddings = <<>>
    /\ allEmbeddings = <<>>
    /\ i = 0
    /\ classified = 0
    /\ failed = 0
    /\ batchResults = <<>>
    /\ aiCalls = <<>>
    /\ dbCalls = <<>>
    /\ response = <<>>
    /\ single = <<>>
    /\ sPc = "idle"
    /\ metrics = <<>>
    /\ completionCalls = <<>>
    /\ summaryResponse = <<>>
    /\ refinement = <<>>
    /\ seedPc = "idle"
    /\ seeds = 0
    /\ jobs = 0
    /\ served = <<>>
    /\ seedResponse = <<>>
    /\ vecA \in CosineInputs
    /\ vecB \in CosineInputs
    /\ similarity = <<>>

\* the call returns, or throws (Thrown)
CallCosineSimilarity ==
    /\ similarity = <<>>
    /\ similarity' = <<cosineSimilarity(vecA, vecB)>>
    /\ UNCHANGED <<pipelineVars, summaryVars, seedVars, vecA, vecB>>

NextCosine == CallCosineSimilarity

CosineSpec == InitCosine /\ [][NextCosine]_vars

-----------------------------------------------------------------------------
(* POST /api/classify taken alone: one request, from its arrival to its     *)
(* response                                                                 *)

NextJob ==
    \/ StartJob
    \/ StartJobReadFails
    \/ AnchorCall
    \/ AnchorCallFails
    \/ EmbedChunk
    \/ EmbedChunkFails
    \/ ClassifyLoop
    \/ SaveBatch
    \/ SaveBatchFails
    \/ ReturnCounts

JobSpec == Init /\ [][NextJob]_vars

-----------------------------------------------------------------------------
(* One request, either POST /api/classify or GET /api/summary, from its     *)
(* arrival to its response                                                  *)

\* feedback tables of the small and the large sizes, of periodic contents
CallsContents == {[k \in 1..n |-> ((k - 1) % NVec) + 1] : n \in (0..MaxItems) \cup BulkSizes}

InitCalls ==
    /\ aiModel = 0
    /\ feedback \in {TableOf(c) : c \in CallsContents}
    /\ classifications = <<>>
    /\ pc = "idle"
    /\ feedbackItems = <<>>
    /\ labelEmbeddings = <<>>
    /\ allEmbeddings = <<>>
    /\ i = 0
    /\ classified = 0
    /\ failed = 0
    /\ batchResults = <<>>
    /\ aiCalls = <<>>
    /\ dbCalls = <<>>
    /\ response = <<>>
    /\ single = <<>>
    /\ sPc = "idle"
    /\ metrics = <<>>
    /\ completionCalls = <<>>
    /\ summaryResponse = <<>>
    /\ refinement = <<>>
    /\ seedPc = "idle"
    /\ seeds = 0
    /\ jobs = 0
    /\ served = <<>>
    /\ seedResponse = <<>>
    /\ vecA = <<>>
    /\ vecB = <<>>
    /\ similarity = <<>>

\* the request is a classification request
ClassifyRequestStep == sPc = "idle" /\ NextJob

\* the request is a summary request
SummaryRequestStep ==
    /\ pc = "idle"
    /\ \/ SummaryRequest
       \/ SummaryReadFails
       \/ ComposeSummary
       \/ ComposeSummaryFails

NextCalls == ClassifyRequestStep \/ SummaryRequestStep

CallsSpec == InitCalls /\ [][NextCalls]_vars

-----------------------------------------------------------------------------

Next ==
    \/ StartJob
    \/ StartJobReadFails
    \/ AnchorCall
    \/ AnchorCallFails
    \/ EmbedChunk
    \/ EmbedChunkFails
    \/ ClassifyLoop
    \/ SaveBatch
    \/ SaveBatchFails
    \/ ReturnCounts
    \/ ClassifySingle
    \/ SaveClassifications

Spec == Init /\ [][Next]_vars

-----------------------------------------------------------------------------
(* Properties *)

\* the item-embedding calls issued so far, in order
ItemCalls == SelectSeq(aiCalls, LAMBDA call : call.kind = "items")

AnchorCalls == SelectSeq(aiCalls, LAMBDA call : call.kind = "anchor")

\* the call answered with one vector per text
OneVectorPerText(call) ==
    /\ call.ok
    /\ Len(call.data) = call.size
    /\ \A k \in 1..Len(call.data) : call.data[k] # NoVector

\* the request was answered with counts
AnsweredCounts == response # <<>> /\ response[1].status = 200

\* the request was answered with an error
AnsweredError == response = ErrorResponse

\* the chunk loop of the job has run to its end
ChunkLoopDone == pc = "save" \/ (pc = "done" /\ (dbCalls # <<>> \/ AnsweredCounts))

\* C1: the input is split into consecutive chunks of at most 100 items, every
\* chunk full except possibly the last, so a job that gets past the chunk
\* loop has issued exactly ceil(N/100) item-embedding calls; and when every
\* call returned one vector per text, the concatenated vectors have length N
\* and the vector at position j is the one returned for input item j.
C1_ChunkingPreservesOrder ==
    LET N == Len(feedbackItems)
        calls == ItemCalls
    IN  /\ \A n \in 1..Len(calls) :
              /\ calls[n].offset = (n - 1) * chunkSize
              /\ calls[n].size = Min(chunkSize, N - calls[n].offset)
              /\ calls[n].size >= 1
        /\ ChunkLoopDone =>
              /\ Len(calls) = CeilDiv(N, chunkSize)
              /\ (\A n \in 1..Len(calls) : OneVectorPerText(calls[n])) =>
                    /\ Len(allEmbeddings) = N
                    /\ \A j \in 1..N :
                          /\ allEmbeddings[j] =
                                 calls[((j - 1) \div chunkSize) + 1].data[((j - 1) % chunkSize) + 1]
                          /\ allEmbeddings[j] = EmbedText(feedbackItems[j].content)

\* C1 witness: 250 items went through three calls of sizes 100, 100, 50,
\* each answered in full
C1_Witness ==
    /\ ChunkLoopDone
    /\ Len(feedbackItems) = 250
    /\ Len(ItemCalls) = 3
    /\ ItemCalls[1].size = 100 /\ ItemCalls[2].size = 100 /\ ItemCalls[3].size = 50
    /\ \A n \in 1..3 : OneVectorPerText(ItemCalls[n])
    /\ Len(allEmbeddings) = 250

\* the classification loop of the job has run to its end
ClassifyLoopDone == ChunkLoopDone

\* the ids of the rows of the classifications table, in insertion order
StoredIds == [n \in 1..Len(classifications) |-> classifications[n].feedback_id]

StoredIdSet == {classifications[n].feedback_id : n \in 1..Len(classifications)}

\* C2: when the embedding call of one chunk fails, the items of that chunk
\* are counted as failed and the job goes on: every chunk is still requested,
\* and the request is answered with {classified, failed} counts.
C2_ChunkFailureIsRecoverable ==
    (pc = "done" /\ \E n \in 1..Len(ItemCalls) : ~ItemCalls[n].ok) =>
        /\ AnsweredCounts
        /\ Len(ItemCalls) = CeilDiv(Len(feedbackItems), chunkSize)
        /\ \A n \in 1..Len(ItemCalls) :
              ~ItemCalls[n].ok => response[1].failed >= ItemCalls[n].size

\* C3: when the embedding call of an anchor category fails, the job aborts
\* with the error: the request is answered with the error and never with
\* counts, no item-embedding call is issued, nothing is classified and no
\* classification record is written.
C3_AnchorFailureAborts ==
    (\E n \in 1..Len(AnchorCalls) : ~AnchorCalls[n].ok) =>
        /\ pc = "done"
        /\ AnsweredError
        /\ ItemCalls = <<>>
        /\ batchResults = <<>>
        /\ dbCalls = <<>>
        /\ classifications = <<>>

\* C3 witness: the third anchor call failed after two succeeded
C3_Witness ==
    /\ Len(AnchorCalls) = 3
    /\ AnchorCalls[1].ok /\ AnchorCalls[2].ok /\ ~AnchorCalls[3].ok
    /\ feedback # <<>>
    /\ pc = "done"

\* C4: once the anchors are precomputed and every embedding call has
\* succeeded, a request that ends is answered with {classified, failed}
\* counts, also when a persistence batch write failed.
C4_CountsUnderPersistenceFailure ==
    (/\ pc = "done"
     /\ Len(labelEmbeddings) = NCategories
     /\ single = <<>>
     /\ \A n \in 1..Len(aiCalls) : aiCalls[n].ok) => AnsweredCounts

RECURSIVE IdsOfOkBatches(_, _)
IdsOfOkBatches(calls, n) ==
    IF n = 0 THEN <<>>
    ELSE IdsOfOkBatches(calls, n - 1) \o (IF calls[n].ok THEN calls[n].ids ELSE <<>>)

\* C5: when the k-th batch write fails, the records of batches 1..k-1 stay
\* stored (the table holds exactly the records of the batches that
\* succeeded, in order), no record of batch k is stored, and the failure
\* leaves the job as an error: no later batch is written, no counts returned.
C5_BatchFailureKeepsPriorBatches ==
    /\ single = <<>> => StoredIds = IdsOfOkBatches(dbCalls, Len(dbCalls))
    /\ \A k \in 1..Len(dbCalls) :
          ~dbCalls[k].ok =>
              /\ k = Len(dbCalls)
              /\ \A j \in 1..(k - 1) : dbCalls[j].ok
              /\ Len(classifications) = (k - 1) * saveChunkSize
              /\ \A n \in 1..Len(dbCalls[k].ids) : dbCalls[k].ids[n] \notin StoredIdSet
              /\ pc = "done"
              /\ AnsweredError

\* C5 witness: the second batch write failed after the first stored 50 records
C5_Witness ==
    /\ Len(dbCalls) = 2
    /\ dbCalls[1].ok /\ ~dbCalls[2].ok
    /\ Len(classifications) = saveChunkSize
    /\ Len(batchResults) > saveChunkSize

\* the positions of the input that have no vector
NoVectorPositions ==
    {k \in 1..Len(feedbackItems) : EmbeddingAt(allEmbeddings, k) = NoVector}

\* the positions whose vector has another length than the anchors'
MismatchPositions ==
    {k \in 1..Len(feedbackItems) :
        /\ EmbeddingAt(allEmbeddings, k) # NoVector
        /\ Len(EmbeddingAt(allEmbeddings, k)) # Len(VecList[1])}

ResultIds == {batchResults[n].id : n \in 1..Len(batchResults)}

\* C6: in a bulk job an item whose position has no vector is not classified:
\* it counts in failed exactly once, it gets no classification record, no
\* further embedding call is issued for it, and the remaining items are
\* still processed.
C6_MissingVectorCountedFailedOnce ==
    ClassifyLoopDone =>
        /\ failed = Cardinality(NoVectorPositions) + Cardinality(MismatchPositions)
        /\ classified + failed = Len(feedbackItems)
        /\ \A k \in NoVectorPositions :
              /\ feedbackItems[k].id \notin ResultIds
              /\ feedbackItems[k].id \notin StoredIdSet
        /\ Len(ItemCalls) = CeilDiv(Len(feedbackItems), chunkSize)
        /\ \A k \in 1..Len(feedbackItems) :
              k \notin (NoVectorPositions \cup MismatchPositions) =>
                  feedbackItems[k].id \in ResultIds

\* C6 witness: the first of two items has no vector, the second is classified
\* and stored, and the counts are returned
C6_Witness ==
    /\ AnsweredCounts
    /\ Len(feedbackItems) = 2
    /\ NoVectorPositions = {1}
    /\ response[1].failed = 1
    /\ response[1].classified = 1
    /\ StoredIdSet = {feedbackItems[2].id}

\* the 1-based positions of the maximum of a sequence of scores
MaxPositions(scores) ==
    {k \in 1..Len(scores) : \A j \in 1..Len(scores) : scores[j] <= scores[k]}

FirstOf(positions) == CHOOSE k \in positions : \A j \in positions : k <= j

\* the scores of a vector against the first k anchors of a category
RECURSIVE ScoresUpTo(_, _, _)
ScoresUpTo(vec, embeddings, k) ==
    IF k = 0 THEN <<>>
    ELSE Append(ScoresUpTo(vec, embeddings, k - 1),
                cosineSimilarity(vec, embeddings[k].embedding))

\* the scores of a vector against the anchors of the c-th category
AnchorScores(vec, lblEmbeddings, c) ==
    ScoresUpTo(vec, lblEmbeddings[c].embeddings, Len(lblEmbeddings[c].embeddings))

\* cls holds, for every category, the first anchor of maximum score
PicksFirstMaximum(cls, vec, lblEmbeddings) ==
    \A c \in 1..Len(lblEmbeddings) :
        LET scores == AnchorScores(vec, lblEmbeddings, c)
            winner == FirstOf(MaxPositions(scores))
            result == cls[lblEmbeddings[c].category]
        IN  /\ result.confidence = scores[winner]
            /\ result.label = LABEL_DEFINITIONS[c].labels[winner][1]
            /\ result.category = LABEL_DEFINITIONS[c].category

\* the position of the input item of the given id
PositionOf(id) ==
    IF id \in 1..Len(feedbackItems) /\ feedbackItems[id].id = id THEN id
    ELSE CHOOSE k \in 1..Len(feedbackItems) : feedbackItems[k].id = id

\* C7: within each category the selected anchor is one of maximum score, and
\* of several anchors sharing the maximum the first in the category's order
\* wins, in the bulk path and in the single-item path, also when all scores
\* are equal.
C7_FirstMaximumWins ==
    /\ \A n \in 1..Len(batchResults) :
          PicksFirstMaximum(batchResults[n].classifications,
                            allEmbeddings[PositionOf(batchResults[n].id)],
                            labelEmbeddings)
    /\ single # <<>> =>
          \E k \in 1..Len(feedback) :
              /\ feedback[k].id = single[1].feedbackId
              /\ PicksFirstMaximum(single[1].classifications,
                                   EmbedText(feedback[k].content),
                                   PrecomputedLabelEmbeddings(aiModel))

\* some category has several anchors of maximum score for the vector, the
\* maximum being nonzero
HasNonzeroTie(vec, lblEmbeddings) ==
    \E c \in 1..Len(lblEmbeddings) :
        LET scores == AnchorScores(vec, lblEmbeddings, c)
        IN  /\ Cardinality(MaxPositions(scores)) > 1
            /\ scores[FirstOf(MaxPositions(scores))] # 0

\* every anchor of every category has the same score for the vector
AllScoresEqual(vec, lblEmbeddings) ==
    \A c \in 1..Len(lblEmbeddings) :
        MaxPositions(AnchorScores(vec, lblEmbeddings, c)) = 1..Len(lblEmbeddings[c].embeddings)

\* C7 witness: a bulk job classified one item with a tie at a nonzero maximum
\* and one item whose scores are all equal
C7_Witness ==
    /\ Len(batchResults) = 2
    /\ HasNonzeroTie(allEmbeddings[1], labelEmbeddings)
    /\ AllScoresEqual(allEmbeddings[2], labelEmbeddings)

\* what the read path is to report for a stored record
ExpectedUrgency(c) ==
    IF c.urgency = "critical"
    THEN IF c.urgency_confidence # <<>> /\ c.urgency_confidence[1] > UrgencyThreshold
         THEN "critical" ELSE "high"
    ELSE c.urgency

\* C8: on the read path (feedback list and single-item query) a record whose
\* raw urgency is critical is reported critical exactly when its confidence
\* is strictly greater than 0.50, and high otherwise; records whose raw label
\* is high, medium or low are reported unchanged.
C8_ReadPathDowngrade ==
    \A k \in 1..Len(feedback) :
        LET f == feedback[k]
            stored == SelectSeq(classifications, LAMBDA c : c.feedback_id = f.id)
            rows == FeedbackListRows(f)
        IN  stored # <<>> =>
                /\ Len(rows) = Len(stored)
                /\ \A n \in 1..Len(stored) :
                      /\ stored[n].urgency \in {"critical", "high", "medium", "low"}
                      /\ rows[n].urgency = ExpectedUrgency(stored[n])
                /\ getFeedbackById(f.id)[1].urgency = ExpectedUrgency(stored[1])

\* C8 witness: the table holds a critical record of confidence exactly 0.50
\* (reported high) and a critical record of higher confidence (reported
\* critical)
C8_Witness ==
    /\ Len(classifications) = 2
    /\ classifications[1].urgency = "critical"
    /\ classifications[1].urgency_confidence = <<UrgencyThreshold>>
    /\ getFeedbackById(classifications[1].feedback_id)[1].urgency = "high"
    /\ classifications[2].urgency = "critical"
    /\ getFeedbackById(classifications[2].feedback_id)[1].urgency = "critical"

\* the raw winning urgency result for a vector: label and score of the
\* first anchor of maximum score
RawUrgency(vec, lblEmbeddings) ==
    LET c == CHOOSE c \in 1..Len(lblEmbeddings) : lblEmbeddings[c].category = "urgency"
        scores == AnchorScores(vec, lblEmbeddings, c)
        winner == FirstOf(MaxPositions(scores))
    IN  [label |-> LABEL_DEFINITIONS[c].labels[winner][1], score |-> scores[winner]]

\* the stored record holds the raw urgency result
HoldsRaw(row, raw) ==
    /\ row.urgency = raw.label
    /\ row.urgency_confidence = (IF raw.score = 0 THEN <<>> ELSE <<raw.score>>)

ReportedCount(label) ==
    Cardinality({n \in 1..Len(JoinRows) : UrgencyCase(JoinRows[n]) = label})

\* C10: after a classification job every place that reads urgency agrees
\* with the feedback queries on every stored record: a record reported
\* critical is ranked and counted as critical, a record reported high is
\* ranked and counted as high, in the importance sort, the metrics urgency
\* distribution, the summary's criticalCount and highCount, and the trend's
\* critical count.
C10_UrgencyReadAlikeEverywhere ==
    AnsweredCounts =>
    /\ \A n \in 1..Len(JoinRows) :
          /\ UrgencyCase(JoinRows[n]) = "critical" => ImportanceRank(JoinRows[n]) = 3
          /\ UrgencyCase(JoinRows[n]) = "high" => ImportanceRank(JoinRows[n]) = 2
    /\ SummaryCriticalCount = ReportedCount("critical")
    /\ SummaryHighCount = ReportedCount("high")
    /\ TrendCriticalCount = ReportedCount("critical")
    /\ \A row \in MetricsUrgencyRows : row.count = ReportedCount(row.urgency)

\* the vector classifyFeedback received from the service
SingleVector == aiCalls[Len(aiCalls)].data[1]

\* the position of a category among the anchors
CategoryAt(cat) ==
    CHOOSE c \in 1..NCategories : LABEL_DEFINITIONS[c].category = cat

\* (a): some category's best score is below 0.65
LowestWinnerBelow(vec, lblEmbeddings) ==
    \E c \in 1..Len(lblEmbeddings) :
        \A k \in 1..Len(lblEmbeddings[c].embeddings) :
            AnchorScores(vec, lblEmbeddings, c)[k] < LowConfidence

\* (b): the raw winning urgency label is critical
RawUrgencyCritical(vec, lblEmbeddings) ==
    RawUrgency(vec, lblEmbeddings).label = "critical"

\* (c): the best polarity score and the best among the other polarity
\* candidates differ by less than 0.15
PolarityTopTwoClose(vec, lblEmbeddings) ==
    LET scores == AnchorScores(vec, lblEmbeddings, CategoryAt("polarity"))
    IN  \E p, q \in 1..Len(scores) :
            /\ p # q
            /\ \A r \in 1..Len(scores) : scores[r] <= scores[p]
            /\ \A r \in 1..Len(scores) \ {p} : scores[r] <= scores[q]
            /\ scores[p] - scores[q] < MixedSentimentGap

\* C11: classifyFeedback sets needsRefinement exactly when (a) the lowest
\* winning confidence is below 0.65, or (b) the raw urgency label is
\* critical, or (c) the top two polarity scores differ by less than 0.15;
\* when none holds there is no refinementReason.
C11_RefinementTrigger ==
    single # <<>> =>
        LET lblEmbeddings == PrecomputedLabelEmbeddings(aiModel)
            triggered == \/ LowestWinnerBelow(SingleVector, lblEmbeddings)
                         \/ RawUrgencyCritical(SingleVector, lblEmbeddings)
                         \/ PolarityTopTwoClose(SingleVector, lblEmbeddings)
        IN  /\ single[1].needsRefinement <=> triggered
            /\ ~triggered => single[1].refinementReason = <<>>

\* C11 witness: an item flagged only because its polarity scores are close
C11_Witness ==
    /\ single # <<>>
    /\ single[1].needsRefinement
    /\ ~LowestWinnerBelow(SingleVector, PrecomputedLabelEmbeddings(aiModel))
    /\ ~RawUrgencyCritical(SingleVector, PrecomputedLabelEmbeddings(aiModel))
    /\ PolarityTopTwoClose(SingleVector, PrecomputedLabelEmbeddings(aiModel))

\* C12: the reason is the first condition that holds in the order
\* low_confidence, critical_urgency, mixed_sentiment.
C12_FirstMatchingReason ==
    single # <<>> /\ single[1].needsRefinement =>
        LET lblEmbeddings == PrecomputedLabelEmbeddings(aiModel)
        IN  single[1].refinementReason =
                IF LowestWinnerBelow(SingleVector, lblEmbeddings)
                THEN <<"low_confidence">>
                ELSE IF RawUrgencyCritical(SingleVector, lblEmbeddings)
                THEN <<"critical_urgency">>
                ELSE <<"mixed_sentiment">>

\* C12 witness: all three conditions hold and the reason is low_confidence
C12_Witness ==
    /\ single # <<>>
    /\ LowestWinnerBelow(SingleVector, PrecomputedLabelEmbeddings(aiModel))
    /\ RawUrgencyCritical(SingleVector, PrecomputedLabelEmbeddings(aiModel))
    /\ PolarityTopTwoClose(SingleVector, PrecomputedLabelEmbeddings(aiModel))
    /\ single[1].refinementReason = <<"low_confidence">>

\* the summary completion calls issued so far
SummaryCalls == SelectSeq(completionCalls, LAMBDA call : call.kind = "summary")

\* the focus a windowContext announces
FocusOf(windowContext) ==
    IF windowContext[1] = "FOCUS: Urgent issues from the last 7 days ("
    THEN "7-day urgent"
    ELSE IF windowContext[1] = "FOCUS: Issues from the last 30 days (fallback due to low 7-day volume)."
    THEN "30-day fallback"
    ELSE IF windowContext[1] = "FOCUS: Long-term trends and issues from the past year (fallback due to low 30-day volume)."
    THEN "all-time trend"
    ELSE IF windowContext[1] = "FOCUS: Recent 30-day performance trends."
    THEN "30-day performance"
    ELSE "none"

\* C13: the summary's focus is chosen by an ordered cascade: 7-day critical
\* count > 0 gives 7-day urgent; else 7-day high count < 5 gives 30-day
\* fallback; else 30-day critical count < 5 gives all-time trend; else
\* 30-day performance.
C13_WindowCascade ==
    \A n \in 1..Len(SummaryCalls) :
        LET focus == FocusOf(SummaryCalls[n].windowContext)
            critical7d == metrics[1].recent7d.criticalCount
            high7d == metrics[1].recent7d.highCount
            critical30d == metrics[1].recent30d.criticalCount
        IN  /\ critical7d > 0 => focus = "7-day urgent"
            /\ critical7d = 0 /\ high7d < 5 => focus = "30-day fallback"
            /\ critical7d = 0 /\ high7d >= 5 /\ critical30d < 5 => focus = "all-time trend"
            /\ critical7d = 0 /\ high7d >= 5 /\ critical30d >= 5 =>
                   focus = "30-day performance"

\* C13 witness: critical7d = 0, high7d = 7, critical30d = 2 gave the
\* all-time trend focus
C13_Witness ==
    /\ Len(SummaryCalls) = 1
    /\ metrics[1].recent7d.criticalCount = 0
    /\ metrics[1].recent7d.highCount = 7
    /\ metrics[1].recent30d.criticalCount = 2
    /\ FocusOf(SummaryCalls[1].windowContext) = "all-time trend"

\* C14: whatever the completion call does (text, empty response, failure),
\* generateExecutiveSummary resolves with a non-empty string, and on a
\* failure with the fallback text; it never rejects.
C14_SummaryFallback ==
    summaryResponse # <<>> /\ SummaryCalls # <<>> =>
        /\ summaryResponse[1].status = 200
        /\ ~EmptyText(summaryResponse[1].summary)
        /\ ~SummaryCalls[1].ok =>
               summaryResponse[1].summary[1] = "Unable to generate summary: "

\* C14 witness: the completion call failed with an empty message and the
\* request was answered with the fallback text
C14_Witness ==
    /\ summaryResponse # <<>>
    /\ SummaryCalls # <<>>
    /\ ~SummaryCalls[1].ok
    /\ summaryResponse[1].summary = <<"Unable to generate summary: ", "">>

\* C15: a summary request is always answered with a summary text, never
\* with an error response, whatever failed while serving it.
C15_SummaryNeverFailsVisibly ==
    summaryResponse # <<>> =>
        /\ summaryResponse[1].status = 200
        /\ ~EmptyText(summaryResponse[1].summary)

\* C16: when the refinement completion call fails, refineCriticalFeedback
\* resolves with a failure-description string and leaves the
\* classifications it was given as they were.
C16_RefinementFailureCaught ==
    refinement # <<>> =>
        /\ refinement[1].classifications = refinement[1].given
        /\ ~completionCalls[Len(completionCalls)].ok =>
               /\ ~refinement[1].threw
               /\ refinement[1].notes[1] = "Refinement failed: "
               /\ ~EmptyText(refinement[1].notes)

\* C16 witness: a refinement call failed with a non-Error value
C16_Witness ==
    /\ refinement # <<>>
    /\ ~completionCalls[Len(completionCalls)].ok
    /\ refinement[1].notes = <<"Refinement failed: ", "Unknown error">>
    /\ refinement[1].given["urgency"].label = "critical"

\* C17: whatever seed and classification requests have been served, no
\* feedback item has more than one stored classification record.
C17_OneRecordPerItem ==
    \A m, n \in 1..Len(classifications) :
        classifications[m].feedback_id = classifications[n].feedback_id => m = n

\* the row satisfies the CHECK constraints (a NULL satisfies a CHECK)
PassesChecks(row) ==
    \A column \in DOMAIN StorageEnum :
        row[column] = NullText \/ row[column] \in StorageEnum[column]

\* C18: the first token of every anchor label of the polarity, urgency,
\* feedbackType and churnRisk categories belongs to the set the storage
\* layer accepts for its column, so every record a job writes passes the
\* storage validation.
C18_LabelsAcceptedByStorage ==
    /\ \A c \in 1..NCategories :
          LET column == getCategoryColumnName(LABEL_DEFINITIONS[c].category)
          IN  column \in DOMAIN StorageEnum =>
                  \A k \in 1..Len(LABEL_DEFINITIONS[c].labels) :
                      extractLabelName(LABEL_DEFINITIONS[c].labels[k]) \in StorageEnum[column]
    /\ \A n \in 1..Len(classifications) : PassesChecks(classifications[n])

\* C18 witness: a job stored a record whose labels are not the first of
\* their categories
C18_Witness ==
    /\ AnsweredCounts
    /\ \E n \in 1..Len(classifications) :
          /\ classifications[n].sentiment = "negative"
          /\ classifications[n].urgency = "low"
          /\ classifications[n].feedback_type \in StorageEnum.feedback_type \ {"bug"}
          /\ classifications[n].churn_risk \in {"medium", "low"}

\* the vector and the classifications of every result of the job
VectorsAndResults ==
    {<<allEmbeddings[PositionOf(batchResults[n].id)], batchResults[n].classifications>> :
        n \in 1..Len(batchResults)}

ResultIdsIn(from, to) ==
    [k \in 1..(Min(to, Len(batchResults)) - from) |-> batchResults[from + k].id]

\* C20: the persister issues one storage call per consecutive group of at
\* most 50 results, every group but the last holding 50; a completed job has
\* written exactly one record per classified item, every classified item is
\* in exactly one batch, and no id is in two batches.
C20_BatchesOfFifty ==
    /\ \A k \in 1..Len(dbCalls) :
          /\ dbCalls[k].offset = (k - 1) * 50
          /\ dbCalls[k].ids = ResultIdsIn((k - 1) * 50, k * 50)
          /\ Len(dbCalls[k].ids) \in 1..50
          /\ k < Len(dbCalls) => Len(dbCalls[k].ids) = 50
    /\ \A j, k \in 1..Len(dbCalls) :
          j # k => \A a \in 1..Len(dbCalls[j].ids) : \A b \in 1..Len(dbCalls[k].ids) :
                       dbCalls[j].ids[a] # dbCalls[k].ids[b]
    /\ AnsweredCounts =>
          /\ Len(classifications) = Len(batchResults)
          /\ \A n \in 1..Len(batchResults) :
                /\ classifications[n].feedback_id = batchResults[n].id
                /\ \E k \in 1..Len(dbCalls) : \E a \in 1..Len(dbCalls[k].ids) :
                       dbCalls[k].ids[a] = batchResults[n].id

\* C20 witness: a job over more than 100 classified items finished with a
\* last batch of fewer than 50 records
C20_Witness ==
    /\ AnsweredCounts
    /\ Len(dbCalls) >= 3
    /\ Len(dbCalls[Len(dbCalls)].ids) < 50
    /\ Len(classifications) = Len(batchResults)

\* the vector has zero magnitude: every component is 0
ZeroVector(v) == \A k \in 1..Len(v) : v[k] = 0

\* C21: for every pair of vectors of equal length of which one has zero
\* magnitude, cosineSimilarity returns exactly 0: it neither throws nor
\* returns another value (a NaN).
C21_ZeroMagnitudeGivesZero ==
    (/\ similarity # <<>>
     /\ Len(vecA) = Len(vecB)
     /\ ZeroVector(vecA) \/ ZeroVector(vecB)) => similarity = <<0>>

\* C21 witness: a call whose second vector alone has zero magnitude
\* returned 0
C21_Witness ==
    /\ similarity = <<0>>
    /\ Len(vecA) = MaxDim /\ Len(vecB) = MaxDim
    /\ ~ZeroVector(vecA)
    /\ ZeroVector(vecB)

\* the models ai.run is called with
EmbeddingCallKinds == {"anchor", "items"}

\* what classifyFeedback would flag for the vector at position k of the job
WouldNeedRefinement(k) ==
    classifyFeedback(allEmbeddings[k], feedbackItems[k].id, labelEmbeddings).needsRefinement

\* C22: during a bulk classification run no call of the text-completion
\* model is issued: every ai.run of the job is an embedding call, and a
\* result of the job holds an id and its classifications and no
\* needsRefinement flag, whatever the labels and confidences are.
C22_NoCompletionCallInBulk ==
    /\ completionCalls = <<>>
    /\ refinement = <<>>
    /\ \A n \in 1..Len(aiCalls) : aiCalls[n].kind \in EmbeddingCallKinds
    /\ \A n \in 1..Len(batchResults) : DOMAIN batchResults[n] = {"id", "classifications"}

\* C22 witness: a job was answered with counts after classifying an item
\* that classifyFeedback would flag (its winning urgency label is critical),
\* and another that it would not
C22_Witness ==
    /\ AnsweredCounts
    /\ Len(batchResults) = 2 /\ Len(feedbackItems) = 2
    /\ batchResults[1].classifications["urgency"].label = "critical"
    /\ WouldNeedRefinement(1)
    /\ ~WouldNeedRefinement(2)
    /\ Len(classifications) = 2

\* the number of stored classification records of a feedback id
RecordsOf(id) ==
    Cardinality({n \in 1..Len(classifications) : classifications[n].feedback_id = id})

\* the number of runs, the one in progress included, that stored a record
\* for the id
RunsThatStored(id) ==
    Cardinality({n \in 1..Len(served) : id \in served[n].stored})
    + (IF id \in StoredBy(dbCalls) THEN 1 ELSE 0)

\* every request so far, the last one included, was answered with counts
AllRunsSucceeded ==
    /\ pc = "done"
    /\ AnsweredCounts
    /\ \A n \in 1..Len(served) : served[n].response.status = 200

\* C23: the job adds records and replaces none.  While the rows the jobs
\* read come from the only seed request so far (no seed in between), an
\* item has one record per run that classified and stored it; so after k
\* runs, all answered with counts, an item classified by each of them has k
\* records.
C23_RerunAddsRecords ==
    seeds <= 1 =>
        /\ \A f \in 1..Len(feedback) :
               RecordsOf(feedback[f].id) = RunsThatStored(feedback[f].id)
        /\ AllRunsSucceeded =>
               \A f \in 1..Len(feedback) :
                   (/\ feedback[f].id \in StoredBy(dbCalls)
                    /\ \A n \in 1..Len(served) : feedback[f].id \in served[n].stored)
                   => RecordsOf(feedback[f].id) = Len(served) + 1

\* C23 witness: MaxJobs runs over the seeded rows, all answered with counts,
\* each classifying every item: every item has MaxJobs records
C23_Witness ==
    /\ seeds = 1
    /\ AllRunsSucceeded
    /\ Len(served) + 1 = MaxJobs
    /\ Len(feedback) = SeedItems
    /\ \A f \in 1..Len(feedback) : RecordsOf(feedback[f].id) = MaxJobs
    /\ \A n \in 1..Len(served) : Cardinality(served[n].stored) = SeedItems

ConfidenceColumn ==
    [polarity |-> "sentiment_confidence",
     urgency |-> "urgency_confidence",
     products |-> "product_confidence",
     feedbackType |-> "feedback_type_confidence"]

\* the record holds, for the category, the first token of the label text of
\* the winning anchor and its score
HoldsWinner(row, vec, lblEmbeddings, cat) ==
    LET c == CategoryIndex(lblEmbeddings, cat)
        scores == AnchorScores(vec, lblEmbeddings, c)
        winner == FirstOf(MaxPositions(scores))
    IN  /\ row[getCategoryColumnName(cat)] = LABEL_DEFINITIONS[c].labels[winner][1]
        /\ row[ConfidenceColumn[cat]] = <<scores[winner]>>

\* C25: for every record a job stored and each of the polarity, urgency,
\* products and feedbackType categories, the stored label is the first token
\* of the winning anchor's label text and the stored confidence is the
\* winning score, whatever the score is, 0 included.
C25_PersistedEqualsWinner ==
    AnsweredCounts =>
        \A n \in 1..Len(classifications) :
            \A cat \in DOMAIN ConfidenceColumn :
                HoldsWinner(classifications[n],
                            allEmbeddings[PositionOf(classifications[n].feedback_id)],
                            labelEmbeddings, cat)

\* the positions of the input whose item has a result
ClassifiedPositions == {k \in 1..Len(feedbackItems) : feedbackItems[k].id \in ResultIds}

\* the positions of the input whose item has none: no vector, or a vector
\* of another length than the anchors'
FailedPositions == NoVectorPositions \cup MismatchPositions

\* C26: when batchClassifyFeedback returns, classified + failed is the
\* number of input items, every input item is counted in exactly one of the
\* two, and the job has written as many records as it counts classified.
C26_CountsPartitionTheInput ==
    AnsweredCounts =>
        /\ response[1].classified + response[1].failed = Len(feedbackItems)
        /\ response[1].classified = Cardinality(ClassifiedPositions)
        /\ response[1].failed = Cardinality(FailedPositions)
        /\ ClassifiedPositions \cap FailedPositions = {}
        /\ ClassifiedPositions \cup FailedPositions = 1..Len(feedbackItems)
        /\ Len(IdsOfOkBatches(dbCalls, Len(dbCalls))) = response[1].classified
        /\ Len(classifications) = response[1].classified

\* C26 witness: a job over 250 items returned with items of all three
\* kinds: without a vector, with a vector of another length, classified
C26_Witness ==
    /\ AnsweredCounts
    /\ Len(feedbackItems) = 250
    /\ NoVectorPositions # {}
    /\ MismatchPositions # {}
    /\ response[1].classified > 100
    /\ response[1].failed > 1
    /\ Len(classifications) = response[1].classified

\* C27: a persistence write is issued only after the five anchor calls and
\* the calls for all item chunks have completed; so when an embedding call
\* throws, the job has issued no write and the classifications table is as
\* it was when the job started (empty).
C27_EmbeddingBeforePersistence ==
    /\ dbCalls # <<>> =>
          /\ Len(AnchorCalls) = NCategories
          /\ Len(ItemCalls) = CeilDiv(Len(feedbackItems), chunkSize)
          /\ \A n \in 1..Len(aiCalls) : aiCalls[n].ok
          /\ Len(allEmbeddings) > 0
    /\ (\E n \in 1..Len(aiCalls) : ~aiCalls[n].ok) =>
          /\ pc = "done"
          /\ AnsweredError
          /\ dbCalls = <<>>
          /\ classifications = <<>>

\* C27 witness: of the three chunks of 250 items the second call threw after
\* the first was answered, and nothing was written
C27_Witness ==
    /\ Len(feedbackItems) = 250
    /\ Len(ItemCalls) = 2
    /\ ItemCalls[1].ok /\ ~ItemCalls[2].ok
    /\ Len(allEmbeddings) = chunkSize
    /\ pc = "done"
    /\ classifications = <<>>

\* the item call that carried the text at position k, and the text's place
\* in it
CallOf(k) == ((k - 1) \div chunkSize) + 1

PlaceInCall(k) == ((k - 1) % chunkSize) + 1

\* C28: every result of the job, and so every record it writes, is computed
\* from the vector the service returned for that item's text: the vector at
\* the text's place in the response of the call that carried it, whatever
\* the responses hold.
C28_RecordFromOwnVector ==
    \A n \in 1..Len(batchResults) :
        LET k == PositionOf(batchResults[n].id)
            data == ItemCalls[CallOf(k)].data
        IN  /\ PlaceInCall(k) <= Len(data)
            /\ data[PlaceInCall(k)] = EmbedText(feedbackItems[k].content)
            /\ batchResults[n].classifications =
                   BulkClassifications(data[PlaceInCall(k)], labelEmbeddings)

\* cosineSimilarity throws for the vector against every anchor
ThrowsAgainstEveryAnchor(vec, lblEmbeddings) ==
    \A c \in 1..Len(lblEmbeddings) :
        \A k \in 1..Len(lblEmbeddings[c].embeddings) :
            cosineSimilarity(vec, lblEmbeddings[c].embeddings[k].embedding) = Thrown

\* C29: cosineSimilarity throws when its vectors differ in length, and in
\* the bulk path the failure stays with the item: an item whose vector has
\* another length than the anchors' is counted failed and gets no result and
\* no record, the other items that have a vector are classified, the
\* request is answered with an error only when an external call failed, and
\* a job that returns has stored the records of the items it classified.
C29_LengthMismatchIsLocal ==
    /\ \A a \in 1..NVec : \A b \in 1..NVec :
          Len(VecList[a]) # Len(VecList[b]) =>
              cosineSimilarity(VecList[a], VecList[b]) = Thrown
    /\ ClassifyLoopDone =>
          /\ \A k \in MismatchPositions :
                /\ ThrowsAgainstEveryAnchor(allEmbeddings[k], labelEmbeddings)
                /\ feedbackItems[k].id \notin ResultIds
                /\ feedbackItems[k].id \notin StoredIdSet
          /\ failed = Cardinality(MismatchPositions) + Cardinality(NoVectorPositions)
          /\ \A k \in 1..Len(feedbackItems) :
                k \notin (MismatchPositions \cup NoVectorPositions) =>
                    feedbackItems[k].id \in ResultIds
    /\ AnsweredError =>
          \/ aiCalls = <<>>
          \/ \E n \in 1..Len(aiCalls) : ~aiCalls[n].ok
          \/ \E n \in 1..Len(dbCalls) : ~dbCalls[n].ok
    /\ AnsweredCounts =>
          /\ StoredIdSet = ResultIds
          /\ response[1].failed >= Cardinality(MismatchPositions)

\* C29 witness: of two items the first received a vector of another length
\* than the anchors'; the job counted it failed, classified and stored the
\* second and returned the counts
C29_Witness ==
    /\ AnsweredCounts
    /\ Len(feedbackItems) = 2
    /\ MismatchPositions = {1}
    /\ NoVectorPositions = {}
    /\ response[1].failed = 1
    /\ response[1].classified = 1
    /\ StoredIds = <<feedbackItems[2].id>>

\* every stored record refers to a row of the feedback table
RecordsReferToRows ==
    \A n \in 1..Len(classifications) :
        \E f \in 1..Len(feedback) : feedback[f].id = classifications[n].feedback_id

\* no classification request is being served: none has arrived, or the last
\* one has been answered
NoJobInFlight == pc = "done" \/ (pc = "idle" /\ jobs = 0)

\* the step in which a seed request completes with its 200 response
SeedCompletes ==
    /\ seedPc = "count"
    /\ seedPc' = "idle"
    /\ seedResponse' # <<>>
    /\ seedResponse'[1].status = 200

\* C30: under every interleaving of seed and classification requests every
\* stored classification record refers to an existing feedback row, and
\* when a seed completes while no job is in flight the classifications
\* table is empty.
C30_SeedAndJobInterleaved ==
    /\ []RecordsReferToRows
    /\ [][(SeedCompletes /\ NoJobInFlight) => classifications' = <<>>]_vars

=============================================================================
